---- MODULE Spec2Model ----
(***************************************************************************)
(* A model of kinetic-rs: the graph workflow executor (GraphAgent), the    *)
(* workflow state store, the condition language and the composite          *)
(* normalizer, as state machines and operators translated from the Rust    *)
(* source.                                                                 *)
(*                                                                         *)
(* Texts are TLA+ strings.  JSON values are records of one shape.  A       *)
(* `when` string is modelled after lexing: a sequence of tokens, a word    *)
(* token holding its '.'-separated segments.                               *)
(***************************************************************************)
EXTENDS Integers, Sequences, FiniteSets, TLC

VARIABLES
    graph,        \* the GraphAgent: [node_order, nodes]
    input,        \* the input string of the current run
    state,        \* the WorkflowState of the run: [fields, reducers]
    completed,    \* HashSet of completed node ids
    iteration,    \* the loop counter of GraphAgent::run
    ready,        \* the part of this iteration's ready list not yet executed
    ready_state,  \* the state fields get_ready_nodes saw in this iteration
    pc,           \* position in GraphAgent::run
    result,       \* the string GraphAgent::run returns
    log,          \* one record per agent invocation, in invocation order
    self,         \* the LLMAgent or ReActAgent under run: its model and tools
    method,       \* which method is running: "run" or "run_stream"
    apc,          \* position in the agent's method
    turn,         \* the loop variable of the agent's for loop
    history,      \* the Vec<Content> of the run
    resp,         \* the model response being handled
    pending,      \* the function calls of this turn not yet executed
    function_responses, \* the FunctionResponse parts built in this turn
    scratchpad,   \* the ReActAgent's scratchpad lines
    trace,        \* the model calls and tool executions made, in order
    ret,          \* what the agent's method returned
    plain,        \* outcome and trace of the finished plain run
    rx,           \* the receiver of the channel: draining, stalled or dropped
    sent,         \* every event the channel accepted, in order
    taken,        \* how many of them the receiver has taken
    outbox,       \* events whose send the method is awaiting, in order
    services,     \* the McpServiceManager's map: config name -> service handle
    spawned,      \* the child processes spawned, in order: the config name of each
    registry,     \* the ToolRegistry's map, shared by its clones: name -> tool
    task,         \* the concurrent callers: for each its call, position and result
    arg,          \* the argument of the function applied
    out           \* what the function returned

graph_vars == <<graph, input, state, completed, iteration, ready, ready_state, pc, result, log>>
agent_vars == <<self, method, apc, turn, history, resp, pending, function_responses,
                scratchpad, trace, ret, plain>>
chan_vars == <<rx, sent, taken, outbox>>
aux_vars == <<services, spawned, registry, task, arg, out>>
vars == <<graph_vars, agent_vars, chan_vars, aux_vars>>

(***************************************************************************)
(* Bounds of the model.                                                    *)
(***************************************************************************)
MaxNodes == 3
MaxDeps == 2
MaxSteps == 2

(***************************************************************************)
(* Sequence helpers.                                                       *)
(***************************************************************************)
Range(s) == {s[i] : i \in DOMAIN s}

Injective(s) == \A i, j \in DOMAIN s : i # j => s[i] # s[j]

SeqsUpTo(S, n) == UNION {[1..k -> S] : k \in 0..n}

RECURSIVE JoinStr(_, _)
JoinStr(parts, sep) ==
    IF parts = <<>> THEN ""
    ELSE IF Len(parts) = 1 THEN parts[1]
    ELSE parts[1] \o sep \o JoinStr(Tail(parts), sep)

(***************************************************************************)
(* serde_json::Value.  An Object keeps its members in key order (the       *)
(* default serde_json Map is a BTreeMap), as a sequence of [k, v].         *)
(***************************************************************************)
JNull == [t |-> "Null", s |-> "", n |-> 0, b |-> FALSE, m |-> <<>>]
JString(x) == [t |-> "String", s |-> x, n |-> 0, b |-> FALSE, m |-> <<>>]
JNumber(x) == [t |-> "Number", s |-> "", n |-> x, b |-> FALSE, m |-> <<>>]
JBool(x) == [t |-> "Bool", s |-> "", n |-> 0, b |-> x, m |-> <<>>]
JArray(items) == [t |-> "Array", s |-> "", n |-> 0, b |-> FALSE, m |-> items]
JObject(members) == [t |-> "Object", s |-> "", n |-> 0, b |-> FALSE, m |-> members]
Member(key, value) == [k |-> key, v |-> value]

\* serde_json Value::get(&str): a member of an Object, None for anything else.
HasMember(json, key) ==
    json.t = "Object" /\ \E i \in DOMAIN json.m : json.m[i].k = key
GetMember(json, key) ==
    json.m[CHOOSE i \in DOMAIN json.m : json.m[i].k = key].v

\* The texts of the model that serde_json::from_str accepts, with their values.
\* Every other text of the model (plain words, a text with a suffix appended)
\* is not valid JSON.
JsonTexts ==
    ("{\"intent\": \"search\"}" :> JObject(<<Member("intent", JString("search"))>>)) @@
    ("{\"intent\":\"search\"}" :> JObject(<<Member("intent", JString("search"))>>)) @@
    ("{\"intent\": \"code\"}" :> JObject(<<Member("intent", JString("code"))>>)) @@
    ("{\"intent\":\"code\"}" :> JObject(<<Member("intent", JString("code"))>>)) @@
    ("{\"result\": \"done\"}" :> JObject(<<Member("result", JString("done"))>>)) @@
    ("{\"result\":\"done\"}" :> JObject(<<Member("result", JString("done"))>>)) @@
    ("{\"findings\": \"x\"}" :> JObject(<<Member("findings", JString("x"))>>)) @@
    ("{\"findings\":\"x\"}" :> JObject(<<Member("findings", JString("x"))>>)) @@
    ("{\"findings\": [\"y\",\"z\"]}" :>
        JObject(<<Member("findings", JArray(<<JString("y"), JString("z")>>))>>)) @@
    ("{\"findings\":[\"y\",\"z\"]}" :>
        JObject(<<Member("findings", JArray(<<JString("y"), JString("z")>>))>>)) @@
    ("\"hi\"" :> JString("hi")) @@
    ("42" :> JNumber(42)) @@
    ("7" :> JNumber(7)) @@
    ("null" :> JNull)

from_str(text) ==
    IF text \in DOMAIN JsonTexts
    THEN [ok |-> TRUE, v |-> JsonTexts[text]]
    ELSE [ok |-> FALSE, v |-> JNull]

\* serde_json's Display of a Value: compact JSON text.
RECURSIVE to_string(_)
to_string(value) ==
    CASE value.t = "Null" -> "null"
      [] value.t = "Bool" -> IF value.b THEN "true" ELSE "false"
      [] value.t = "Number" -> ToString(value.n)
      [] value.t = "String" -> "\"" \o value.s \o "\""
      [] value.t = "Array" ->
            "[" \o JoinStr([i \in DOMAIN value.m |-> to_string(value.m[i])], ",") \o "]"
      [] value.t = "Object" ->
            "{" \o JoinStr([i \in DOMAIN value.m |->
                       "\"" \o value.m[i].k \o "\":" \o to_string(value.m[i].v)], ",") \o "}"

RECURSIVE value_to_text(_)
value_to_text(value) ==
    CASE value.t = "String" -> value.s
      [] value.t = "Object" ->
            IF Len(value.m) = 1
               /\ value.m[1].k \in {"result", "answer", "response"}
            THEN value_to_text(value.m[1].v)
            ELSE JoinStr([i \in DOMAIN value.m |->
                     "**" \o value.m[i].k \o "**: " \o value_to_text(value.m[i].v)], "\n")
      [] value.t = "Array" ->
            JoinStr([i \in DOMAIN value.m |-> "- " \o value_to_text(value.m[i])], "\n")
      [] value.t = "Number" -> ToString(value.n)
      [] value.t = "Bool" -> IF value.b THEN "true" ELSE "false"
      [] value.t = "Null" -> ""

\* path is the json_path after split('.').
RECURSIVE extract_json_path(_, _)
extract_json_path(json, path) ==
    IF path = <<>> THEN [some |-> TRUE, v |-> json]
    ELSE IF HasMember(json, Head(path))
         THEN extract_json_path(GetMember(json, Head(path)), Tail(path))
         ELSE [some |-> FALSE, v |-> JNull]

(***************************************************************************)
(* Node ids and state keys of the model, in byte order: the order in which *)
(* a BTreeMap<String, _> iterates them.                                    *)
(***************************************************************************)
max_iterations == 100

ChainLen == max_iterations + 1
ChainId(i) == "n" \o ToString(1000 + i)
CompositeId(prefix, i) == prefix \o ToString(i)
CompositeIds(prefix) == [i \in 1..(MaxSteps + 1) |-> CompositeId(prefix, i - 1)]

IdsBeforeI == <<"a", "b", "c", "d">>
IdsBeforeO == CompositeIds("loop_") \o <<"main">> \o [i \in 1..ChainLen |-> ChainId(i)]
IdsAfterO == CompositeIds("parallel_") \o CompositeIds("step_")
IdsSorted == IdsBeforeI \o IdsBeforeO \o IdsAfterO

RECURSIVE WithErrorKeys(_)
WithErrorKeys(ids) ==
    IF ids = <<>> THEN <<>>
    ELSE <<Head(ids), Head(ids) \o ".error">> \o WithErrorKeys(Tail(ids))

KeysSorted ==
    WithErrorKeys(IdsBeforeI) \o <<"findings", "input", "intent">>
    \o WithErrorKeys(IdsBeforeO)
    \o [i \in DOMAIN IdsSorted |-> "output." \o IdsSorted[i]]
    \o WithErrorKeys(IdsAfterO)

KeyRank(key) == CHOOSE i \in DOMAIN KeysSorted : KeysSorted[i] = key

\* The keys of S in BTreeMap iteration order.
RECURSIVE SortKeys(_)
SortKeys(S) ==
    IF S = {} THEN <<>>
    ELSE LET least == CHOOSE x \in S : \A y \in S : KeyRank(x) <= KeyRank(y)
         IN <<least>> \o SortKeys(S \ {least})

(***************************************************************************)
(* WorkflowState (state/store.rs).                                         *)
(***************************************************************************)
Put(f, key, value) == [x \in (DOMAIN f) \cup {key} |-> IF x = key THEN value ELSE f[x]]

EmptyMap == [x \in {} |-> JNull]

empty == [fields |-> EmptyMap, reducers |-> [x \in {} |-> "Overwrite"]]

\* BTreeMap insert into an Object's members.
RECURSIVE InsertMember(_, _)
InsertMember(members, mem) ==
    IF members = <<>> THEN <<mem>>
    ELSE IF Head(members).k = mem.k THEN <<mem>> \o Tail(members)
    ELSE IF KeyRank(mem.k) < KeyRank(Head(members).k) THEN <<mem>> \o members
    ELSE <<Head(members)>> \o InsertMember(Tail(members), mem)

RECURSIVE InsertMembers(_, _)
InsertMembers(members, new) ==
    IF new = <<>> THEN members
    ELSE InsertMembers(InsertMember(members, Head(new)), Tail(new))

\* update with an Append arm that pushes an array value as one element.
update_pushes_arrays(st, key, value) ==
    LET reducer == IF key \in DOMAIN st.reducers THEN st.reducers[key] ELSE "Overwrite"
        f == st.fields
        has == key \in DOMAIN f
    IN  CASE reducer = "Overwrite" -> [st EXCEPT !.fields = Put(f, key, value)]
          [] reducer = "Append" ->
                LET arr == IF has THEN f[key] ELSE JArray(<<>>)
                IN  IF arr.t = "Array"
                    THEN [st EXCEPT !.fields = Put(f, key, JArray(Append(arr.m, value)))]
                    ELSE st
          [] reducer = "Max" ->
                IF value.t = "Number"
                   /\ (~has \/ f[key].t # "Number" \/ value.n > f[key].n)
                THEN [st EXCEPT !.fields = Put(f, key, value)]
                ELSE st
          [] reducer = "Min" ->
                IF value.t = "Number"
                   /\ (~has \/ f[key].t # "Number" \/ value.n < f[key].n)
                THEN [st EXCEPT !.fields = Put(f, key, value)]
                ELSE st
          [] reducer = "Merge" ->
                LET cur == IF has THEN f[key] ELSE JObject(<<>>)
                IN  IF cur.t = "Object" /\ value.t = "Object"
                    THEN [st EXCEPT !.fields = Put(f, key, JObject(InsertMembers(cur.m, value.m)))]
                    ELSE [st EXCEPT !.fields = Put(f, key, cur)]

\* update whose Max and Min arms store every numeric value written.
update_last_number(st, key, value) ==
    LET reducer == IF key \in DOMAIN st.reducers THEN st.reducers[key] ELSE "Overwrite"
        f == st.fields
        has == key \in DOMAIN f
    IN  CASE reducer = "Overwrite" -> [st EXCEPT !.fields = Put(f, key, value)]
          [] reducer = "Append" ->
                LET arr == IF has THEN f[key] ELSE JArray(<<>>)
                IN  IF arr.t = "Array"
                    THEN [st EXCEPT !.fields = Put(f, key,
                             IF value.t = "Array"
                             THEN JArray(arr.m \o value.m)
                             ELSE JArray(Append(arr.m, value)))]
                    ELSE st
          [] reducer \in {"Max", "Min"} ->
                IF value.t = "Number"
                THEN [st EXCEPT !.fields = Put(f, key, value)]
                ELSE st
          [] reducer = "Merge" ->
                LET cur == IF has THEN f[key] ELSE JObject(<<>>)
                IN  IF cur.t = "Object" /\ value.t = "Object"
                    THEN [st EXCEPT !.fields = Put(f, key, JObject(InsertMembers(cur.m, value.m)))]
                    ELSE [st EXCEPT !.fields = Put(f, key, cur)]

update(st, key, value) ==
    LET reducer == IF key \in DOMAIN st.reducers THEN st.reducers[key] ELSE "Overwrite"
        f == st.fields
        has == key \in DOMAIN f
    IN  CASE reducer = "Overwrite" -> [st EXCEPT !.fields = Put(f, key, value)]
          [] reducer = "Append" ->
                LET arr == IF has THEN f[key] ELSE JArray(<<>>)
                IN  IF arr.t = "Array"
                    THEN [st EXCEPT !.fields = Put(f, key,
                             IF value.t = "Array"
                             THEN JArray(arr.m \o value.m)
                             ELSE JArray(Append(arr.m, value)))]
                    ELSE st
          [] reducer = "Max" ->
                IF value.t = "Number"
                   /\ (~has \/ f[key].t # "Number" \/ value.n > f[key].n)
                THEN [st EXCEPT !.fields = Put(f, key, value)]
                ELSE st
          [] reducer = "Min" ->
                IF value.t = "Number"
                   /\ (~has \/ f[key].t # "Number" \/ value.n < f[key].n)
                THEN [st EXCEPT !.fields = Put(f, key, value)]
                ELSE st
          [] reducer = "Merge" ->
                LET cur == IF has THEN f[key] ELSE JObject(<<>>)
                IN  IF cur.t = "Object" /\ value.t = "Object"
                    THEN [st EXCEPT !.fields = Put(f, key, JObject(InsertMembers(cur.m, value.m)))]
                    ELSE [st EXCEPT !.fields = Put(f, key, cur)]

HasKey(st, key) == key \in DOMAIN st.fields
get(st, key) == st.fields[key]

\* path is the dotted path after split('.'): only its first part names a field.
RECURSIVE Descend(_, _)
Descend(value, parts) ==
    IF parts = <<>> THEN [some |-> TRUE, v |-> value]
    ELSE IF HasMember(value, Head(parts))
         THEN Descend(GetMember(value, Head(parts)), Tail(parts))
         ELSE [some |-> FALSE, v |-> JNull]

get_path(st, path) ==
    IF path = <<>> \/ Head(path) \notin DOMAIN st.fields
    THEN [some |-> FALSE, v |-> JNull]
    ELSE Descend(st.fields[Head(path)], Tail(path))

to_json(st) ==
    LET keys == SortKeys(DOMAIN st.fields)
    IN  JObject([i \in DOMAIN keys |-> Member(keys[i], st.fields[keys[i]])])

(***************************************************************************)
(* The condition language (condition/ast.rs, parser.rs, evaluator.rs).     *)
(* A condition string is a sequence of tokens: a word (its segments        *)
(* between dots), a quoted string or a number.                             *)
(***************************************************************************)
Word(segments) == [k |-> "word", w |-> segments, n |-> 0]
Quoted(text) == [k |-> "str", w |-> <<text>>, n |-> 0]
Numeral(x) == [k |-> "num", w |-> <<>>, n |-> x]
Kw(word) == Word(<<word>>)

LitString(x) == [lt |-> "String", s |-> x, n |-> 0, b |-> FALSE]
LitNumber(x) == [lt |-> "Number", s |-> "", n |-> x, b |-> FALSE]
LitBoolean(x) == [lt |-> "Boolean", s |-> "", n |-> 0, b |-> x]
LitNull == [lt |-> "Null", s |-> "", n |-> 0, b |-> FALSE]

ExprTrue == [e |-> "True"]
ExprFalse == [e |-> "False"]
Compare(left, op, right) == [e |-> "Compare", left |-> left, op |-> op, right |-> right]
And(l, r) == [e |-> "And", l |-> l, r |-> r]
Or(l, r) == [e |-> "Or", l |-> l, r |-> r]
Not(inner) == [e |-> "Not", l |-> inner]

ParseOk(expr) == [ok |-> TRUE, expr |-> expr]
ParseErr == [ok |-> FALSE, expr |-> ExprFalse]

parse_literal(toks) ==
    IF Len(toks) = 1
    THEN LET tok == toks[1]
         IN  CASE tok = Kw("null") -> [ok |-> TRUE, lit |-> LitNull]
               [] tok = Kw("true") -> [ok |-> TRUE, lit |-> LitBoolean(TRUE)]
               [] tok = Kw("false") -> [ok |-> TRUE, lit |-> LitBoolean(FALSE)]
               [] tok.k = "str" -> [ok |-> TRUE, lit |-> LitString(tok.w[1])]
               [] tok.k = "num" -> [ok |-> TRUE, lit |-> LitNumber(tok.n)]
               [] OTHER -> [ok |-> FALSE, lit |-> LitNull]
    ELSE [ok |-> FALSE, lit |-> LitNull]

\* find_operator: the first place of the operator outside quotes.
find_operator(toks, op) ==
    IF \E i \in DOMAIN toks : toks[i] = Kw(op)
    THEN CHOOSE i \in DOMAIN toks : toks[i] = Kw(op) /\ \A j \in 1..(i - 1) : toks[j] # Kw(op)
    ELSE 0

operators == <<"!=", ">=", "<=", "==", ">", "<", "contains">>

\* The text left of the operator is the path; one word gives its segments,
\* anything else a name no field has.
LeftPath(toks) == IF Len(toks) = 1 /\ toks[1].k = "word" THEN toks[1].w ELSE <<"">>

\* parse_comparison that takes a text without operator for true.
parse_comparison_lenient(toks) ==
    LET found == {i \in DOMAIN operators : find_operator(toks, operators[i]) > 0}
    IN  IF found = {} THEN ParseOk(ExprTrue)
        ELSE LET i == CHOOSE x \in found : \A y \in found : x <= y
                 pos == find_operator(toks, operators[i])
                 right == parse_literal(SubSeq(toks, pos + 1, Len(toks)))
             IN  IF right.ok
                 THEN ParseOk(Compare(LeftPath(SubSeq(toks, 1, pos - 1)), operators[i], right.lit))
                 ELSE ParseErr

parse_comparison(toks) ==
    LET found == {i \in DOMAIN operators : find_operator(toks, operators[i]) > 0}
    IN  IF found = {} THEN ParseErr
        ELSE LET i == CHOOSE x \in found : \A y \in found : x <= y
                 pos == find_operator(toks, operators[i])
                 right == parse_literal(SubSeq(toks, pos + 1, Len(toks)))
             IN  IF right.ok
                 THEN ParseOk(Compare(LeftPath(SubSeq(toks, 1, pos - 1)), operators[i], right.lit))
                 ELSE ParseErr

\* The first " and " or " or " of the string: a connective with text on both sides.
Connectives(toks) == {i \in 2..(Len(toks) - 1) : toks[i] \in {Kw("and"), Kw("or")}}

RECURSIVE parse(_)
parse(toks) ==
    IF toks = <<Kw("true")>> THEN ParseOk(ExprTrue)
    ELSE IF toks = <<Kw("false")>> THEN ParseOk(ExprFalse)
    ELSE IF Connectives(toks) # {}
    THEN LET i == CHOOSE x \in Connectives(toks) : \A y \in Connectives(toks) : x <= y
             left == parse(SubSeq(toks, 1, i - 1))
             right == parse(SubSeq(toks, i + 1, Len(toks)))
         IN  IF ~left.ok \/ ~right.ok THEN ParseErr
             ELSE IF toks[i] = Kw("and") THEN ParseOk(And(left.expr, right.expr))
             ELSE ParseOk(Or(left.expr, right.expr))
    ELSE parse_comparison(toks)

\* values_equal that compares the kinds of the two values only.
values_equal_kind(left, right) ==
    IF ~left.some THEN right.lt = "Null"
    ELSE CASE left.v.t = "Null" /\ right.lt = "Null" -> TRUE
           [] left.v.t = "String" /\ right.lt = "String" -> TRUE
           [] left.v.t = "Number" /\ right.lt = "Number" -> TRUE
           [] left.v.t = "Bool" /\ right.lt = "Boolean" -> TRUE
           [] OTHER -> FALSE

values_equal(left, right) ==
    IF ~left.some THEN right.lt = "Null"
    ELSE CASE left.v.t = "Null" /\ right.lt = "Null" -> TRUE
           [] left.v.t = "String" /\ right.lt = "String" -> left.v.s = right.s
           [] left.v.t = "Number" /\ right.lt = "Number" -> left.v.n = right.n
           [] left.v.t = "Bool" /\ right.lt = "Boolean" -> left.v.b = right.b
           [] OTHER -> FALSE

compare_numbers(left, right, op) ==
    IF left.some /\ left.v.t = "Number" /\ right.lt = "Number"
    THEN CASE op = ">" -> left.v.n > right.n
           [] op = ">=" -> left.v.n >= right.n
           [] op = "<" -> left.v.n < right.n
           [] op = "<=" -> left.v.n <= right.n
    ELSE FALSE

\* str::contains on the texts of the model: a text contains itself and the
\* empty text; no other text of the model is a substring of another.
check_contains(left, right) ==
    IF ~left.some THEN FALSE
    ELSE CASE left.v.t = "String" /\ right.lt = "String" ->
                 right.s = "" \/ left.v.s = right.s
           [] left.v.t = "Array" /\ right.lt = "String" ->
                 \E i \in DOMAIN left.v.m : left.v.m[i] = JString(right.s)
           [] left.v.t = "Array" /\ right.lt = "Number" ->
                 \E i \in DOMAIN left.v.m : left.v.m[i] = JNumber(right.n)
           [] left.v.t = "Array" /\ right.lt = "Boolean" ->
                 \E i \in DOMAIN left.v.m : left.v.m[i] = JBool(right.b)
           [] OTHER -> FALSE

\* evaluate_compare whose != needs a value at the path.
evaluate_compare_present(left, op, right, st) ==
    LET left_value == get_path(st, left)
    IN  CASE op = "==" -> values_equal(left_value, right)
          [] op = "!=" -> left_value.some /\ ~values_equal(left_value, right)
          [] op \in {">", ">=", "<", "<="} -> compare_numbers(left_value, right, op)
          [] op = "contains" -> check_contains(left_value, right)

evaluate_compare(left, op, right, st) ==
    LET left_value == get_path(st, left)
    IN  CASE op = "==" -> values_equal(left_value, right)
          [] op = "!=" -> ~values_equal(left_value, right)
          [] op \in {">", ">=", "<", "<="} -> compare_numbers(left_value, right, op)
          [] op = "contains" -> check_contains(left_value, right)

RECURSIVE evaluate(_, _)
evaluate(expr, st) ==
    CASE expr.e = "True" -> TRUE
      [] expr.e = "False" -> FALSE
      [] expr.e = "Compare" -> evaluate_compare(expr.left, expr.op, expr.right, st)
      [] expr.e = "And" -> evaluate(expr.l, st) /\ evaluate(expr.r, st)
      [] expr.e = "Or" -> evaluate(expr.l, st) \/ evaluate(expr.r, st)
      [] expr.e = "Not" -> ~evaluate(expr.l, st)

(***************************************************************************)
(* Agents as the scheduler sees them: run(input) gives Ok(text) or Err.    *)
(* The kinds are the agents of the tests: one that returns a fixed         *)
(* response, one that appends a suffix to its input, and one that fails.   *)
(***************************************************************************)
MockAgent(response) == [kind |-> "mock", text |-> response]
TransformAgent(suffix) == [kind |-> "transform", text |-> suffix]
FailingAgent(message) == [kind |-> "failing", text |-> message]

\* Result<String, Box<dyn Error>>.
Ok(text) == [ok |-> TRUE, text |-> text]
Err(message) == [ok |-> FALSE, text |-> message]

AgentRun(agent, in) ==
    CASE agent.kind = "mock" -> Ok(agent.text)
      [] agent.kind = "transform" -> Ok(in \o agent.text)
      [] agent.kind = "failing" -> Err(agent.text)

(***************************************************************************)
(* GraphAgent (graph/executor.rs).                                         *)
(***************************************************************************)
NoWhen == [some |-> FALSE, toks |-> <<>>]
When(toks) == [some |-> TRUE, toks |-> toks]
NoOutputs == [x \in {} |-> <<>>]

CompiledNode(id, agent, depends_on, when, outputs, wait_mode) ==
    [id |-> id, agent |-> agent, depends_on |-> depends_on, when |-> when,
     outputs |-> outputs, wait_mode |-> wait_mode]

\* GraphAgent::new: the ids in the given order, and the map from id to node
\* (a later node of the same id replaces an earlier one).
GraphAgentNew(nodes) ==
    [node_order |-> [i \in DOMAIN nodes |-> nodes[i].id],
     nodes |-> [id \in {nodes[i].id : i \in DOMAIN nodes} |->
                  nodes[CHOOSE i \in DOMAIN nodes :
                          nodes[i].id = id /\ \A j \in DOMAIN nodes : nodes[j].id = id => j <= i]]]

\* dependencies_satisfied without the wait mode: one completed dependency is enough.
dependencies_satisfied_any(node, done) ==
    IF node.depends_on = <<>> THEN TRUE
    ELSE \E i \in DOMAIN node.depends_on : node.depends_on[i] \in done

dependencies_satisfied(node, done) ==
    IF node.depends_on = <<>> THEN TRUE
    ELSE IF node.wait_mode = "All"
         THEN \A i \in DOMAIN node.depends_on : node.depends_on[i] \in done
         ELSE \E i \in DOMAIN node.depends_on : node.depends_on[i] \in done

\* condition_met that lets a node run when its when clause does not parse.
condition_met_lenient(node, st) ==
    IF ~node.when.some THEN TRUE
    ELSE LET parsed == parse(node.when.toks)
         IN  IF parsed.ok THEN evaluate(parsed.expr, st) ELSE TRUE

condition_met(node, st) ==
    IF ~node.when.some THEN TRUE
    ELSE LET parsed == parse(node.when.toks)
         IN  IF parsed.ok THEN evaluate(parsed.expr, st) ELSE FALSE

get_ready_nodes(g, done, st) ==
    LET Ready(id) == /\ id \notin done
                     /\ dependencies_satisfied(g.nodes[id], done)
                     /\ condition_met(g.nodes[id], st)
    IN  SelectSeq(g.node_order, Ready)

\* build_node_input that reads the first dependency's output.
build_node_input_first(original_input, node, st) ==
    IF node.depends_on = <<>> THEN original_input
    ELSE LET first_dep == node.depends_on[1]
             output_key == "output." \o first_dep
         IN  IF HasKey(st, output_key)
             THEN IF get(st, output_key).t = "String"
                  THEN get(st, output_key).s
                  ELSE to_string(get(st, output_key))
             ELSE original_input

build_node_input(original_input, node, st) ==
    IF node.depends_on = <<>> THEN original_input
    ELSE LET last_dep == node.depends_on[Len(node.depends_on)]
             output_key == "output." \o last_dep
         IN  IF HasKey(st, output_key)
             THEN IF get(st, output_key).t = "String"
                  THEN get(st, output_key).s
                  ELSE to_string(get(st, output_key))
             ELSE original_input

\* The mapped outputs, one update per entry of the outputs map.
RECURSIVE ApplyMappings(_, _, _, _)
ApplyMappings(keys, outputs, json, st) ==
    IF keys = {} THEN st
    ELSE LET state_key == CHOOSE x \in keys : TRUE
             value == extract_json_path(json, outputs[state_key])
             next == IF value.some THEN update(st, state_key, value.v) ELSE st
         IN  ApplyMappings(keys \ {state_key}, outputs, json, next)

\* apply_outputs that stores nothing for an output that is not JSON.
apply_outputs_json_only(node, output, st) ==
    LET json == from_str(output)
    IN  IF json.ok
        THEN ApplyMappings(DOMAIN node.outputs, node.outputs, json.v,
                           update(st, "output." \o node.id, json.v))
        ELSE st

apply_outputs(node, output, st) ==
    LET json == from_str(output)
    IN  IF json.ok
        THEN ApplyMappings(DOMAIN node.outputs, node.outputs, json.v,
                           update(st, "output." \o node.id, json.v))
        ELSE update(st, "output." \o node.id, JString(output))

AllDeps(g) == UNION {Range(g.nodes[id].depends_on) : id \in DOMAIN g.nodes}
\* TerminalNodes that takes every node for terminal.
TerminalNodes_all(g) == DOMAIN g.nodes
TerminalNodes(g) == {id \in DOMAIN g.nodes : id \notin AllDeps(g)}

\* The members of the state's JSON object that are outputs of terminal nodes,
\* in the object's iteration order.
TerminalOutputs(g, st) ==
    LET IsTerminalOutput(mem) == \E id \in TerminalNodes(g) : mem.k = "output." \o id
    IN  SelectSeq(to_json(st).m, IsTerminalOutput)

Separator == "\n\n---\n\n"

format_response(g, st) ==
    LET outputs == TerminalOutputs(g, st)
    IN  IF Len(outputs) = 1 THEN value_to_text(outputs[1].v)
        ELSE JoinStr([i \in DOMAIN outputs |-> value_to_text(outputs[i].v)], Separator)

(***************************************************************************)
(* Composite workflows lowered to graph nodes (graph/normalizer.rs,        *)
(* graph/types.rs).                                                        *)
(***************************************************************************)
DependsOnNone == [kind |-> "None", ids |-> <<>>]
DependsOnSingle(id) == [kind |-> "Single", ids |-> <<id>>]
DependsOnMultiple(ids) == [kind |-> "Multiple", ids |-> ids]

to_vec(depends_on) == depends_on.ids

NodeDefinition(id, agent, depends_on, when, outputs, wait_for) ==
    [id |-> id, agent |-> agent, depends_on |-> depends_on, when |-> when,
     outputs |-> outputs, wait_for |-> wait_for]

NoOutputsDef == [some |-> FALSE, map |-> NoOutputs]

\* normalize_composite whose sequential steps do not depend on each other.
normalize_composite_flat(execution, agent_configs) ==
    CASE execution \in {"sequential", "parallel"} ->
            [ok |-> TRUE, nodes |-> [i \in DOMAIN agent_configs |->
                NodeDefinition(
                    CompositeId(IF execution = "sequential" THEN "step_" ELSE "parallel_", i - 1),
                    agent_configs[i], DependsOnNone, NoWhen, NoOutputsDef, "All")]]
      [] execution = "loop" ->
            [ok |-> TRUE, nodes |-> [i \in DOMAIN agent_configs |->
                NodeDefinition(CompositeId("loop_", i - 1), agent_configs[i],
                    IF i = 1 THEN DependsOnNone
                    ELSE DependsOnSingle(CompositeId("loop_", i - 2)),
                    NoWhen, NoOutputsDef, "All")]]
      [] OTHER -> [ok |-> FALSE, nodes |-> <<>>]

normalize_composite(execution, agent_configs) ==
    CASE execution = "sequential" ->
            [ok |-> TRUE, nodes |-> [i \in DOMAIN agent_configs |->
                NodeDefinition(CompositeId("step_", i - 1), agent_configs[i],
                    IF i = 1 THEN DependsOnNone
                    ELSE DependsOnSingle(CompositeId("step_", i - 2)),
                    NoWhen, NoOutputsDef, "All")]]
      [] execution = "parallel" ->
            [ok |-> TRUE, nodes |-> [i \in DOMAIN agent_configs |->
                NodeDefinition(CompositeId("parallel_", i - 1), agent_configs[i],
                    DependsOnNone, NoWhen, NoOutputsDef, "All")]]
      [] execution = "loop" ->
            [ok |-> TRUE, nodes |-> [i \in DOMAIN agent_configs |->
                NodeDefinition(CompositeId("loop_", i - 1), agent_configs[i],
                    IF i = 1 THEN DependsOnNone
                    ELSE DependsOnSingle(CompositeId("loop_", i - 2)),
                    NoWhen, NoOutputsDef, "All")]]
      [] OTHER -> [ok |-> FALSE, nodes |-> <<>>]

\* The loader's graph definition (workflow/types.rs) and its normalization.
NoSchema == [some |-> FALSE, fields |-> [x \in {} |-> [reducer |-> "overwrite"]]]
Schema(fields) == [some |-> TRUE, fields |-> fields]
GraphNodeDefinition(id, agent, depends_on, when, outputs, wait_for) ==
    [id |-> id, agent |-> agent, depends_on |-> depends_on, when |-> when,
     outputs |-> outputs, wait_for |-> wait_for]
GraphDefinition(schema, nodes) == [some |-> TRUE, state |-> schema, nodes |-> nodes]
NoGraphDefinition == [some |-> FALSE, state |-> NoSchema, nodes |-> <<>>]

normalize_graph(def) ==
    IF ~def.graph.some THEN [ok |-> FALSE, state |-> NoSchema, nodes |-> <<>>]
    ELSE [ok |-> TRUE,
          state |-> NoSchema,
          nodes |-> [i \in DOMAIN def.graph.nodes |->
             LET node_def == def.graph.nodes[i]
             IN  NodeDefinition(node_def.id, node_def.agent, node_def.depends_on,
                     node_def.when, node_def.outputs,
                     IF node_def.wait_for = "any" THEN "Any" ELSE "All")]]

\* The builder's compile step: one CompiledNode per node definition, in order.
CompileNode(def) ==
    CompiledNode(def.id, def.agent, to_vec(def.depends_on), def.when,
                 IF def.outputs.some THEN def.outputs.map ELSE NoOutputs, def.wait_for)

CompileGraph(defs) == GraphAgentNew([i \in DOMAIN defs |-> CompileNode(defs[i])])

\* SequentialAgent::run (adk/agent.rs): the agents in list order, each on the
\* previous one's output; the first error ends the run.
RECURSIVE SequentialRun(_, _)
SequentialRun(sub_agents, current_input) ==
    IF sub_agents = <<>> THEN Ok(current_input)
    ELSE LET r == AgentRun(Head(sub_agents), current_input)
         IN  IF r.ok THEN SequentialRun(Tail(sub_agents), r.text) ELSE r

(***************************************************************************)
(* adk: parts, contents, events, models, tools and the LLMAgent.           *)
(***************************************************************************)
\* Part (adk/model.rs).  The args of a FunctionCall are the same in every
\* call and are left out.
Text(s) == [p |-> "Text", name |-> "", text |-> s, response |-> JNull]
Thinking(s) == [p |-> "Thinking", name |-> "", text |-> s, response |-> JNull]
FunctionCall(name) == [p |-> "FunctionCall", name |-> name, text |-> "", response |-> JNull]
FunctionResponse(name, r) == [p |-> "FunctionResponse", name |-> name, text |-> "", response |-> r]

Content(role, parts) == [role |-> role, parts |-> parts]

\* AgentEvent (adk/agent/mod.rs).
Thought(s) == [e |-> "Thought", name |-> "", text |-> s, result |-> JNull]
ToolCall(name) == [e |-> "ToolCall", name |-> name, text |-> "", result |-> JNull]
ToolResult(name, r) == [e |-> "ToolResult", name |-> name, text |-> "", result |-> r]
Answer(s) == [e |-> "Answer", name |-> "", text |-> s, result |-> JNull]
Error(s) == [e |-> "Error", name |-> "", text |-> s, result |-> JNull]

\* What Model::generate_content returns: a Content of role "model", or an error.
ModelOk(parts) == [ok |-> TRUE, parts |-> parts, text |-> ""]
ModelErr(message) == [ok |-> FALSE, parts |-> <<>>, text |-> message]

\* A Model that answers its calls from a list, in order, and every call after
\* the list is used up with one fixed response.
ScriptedModel(responses, rest) == [responses |-> responses, rest |-> rest]

\* The model's answer to its n-th call.
generate_content(model, n) ==
    IF n <= Len(model.responses) THEN model.responses[n] ELSE model.rest

\* A Tool whose execute returns a fixed Result<Value, _>.
ToolOk(name, value) == [name |-> name, ok |-> TRUE, value |-> value, text |-> ""]
ToolErr(name, message) == [name |-> name, ok |-> FALSE, value |-> JNull, text |-> message]

\* LLMAgent::new: the tools and the name -> index map; of two tools with one
\* name the later one is the one the map keeps.
tool_map(tools) ==
    [n \in {tools[i].name : i \in DOMAIN tools} |->
        CHOOSE i \in DOMAIN tools :
            /\ tools[i].name = n
            /\ \A j \in DOMAIN tools : tools[j].name = n => j <= i]

LLMAgentNew(instruction, model, tools) ==
    [instruction |-> instruction, model |-> model, tools |-> tools,
     tool_map |-> tool_map(tools), max_iterations |-> 0]

HasTool(a, name) == name \in DOMAIN a.tool_map
get_tool(a, name) == a.tools[a.tool_map[name]]

\* The json!({ "error": ... }) value a failed call is answered with.
ErrorValue(message) == JObject(<<Member("error", JString(message))>>)

\* The value a function call is answered with (LLMAgent::run, run_stream).
tool_response(a, name) ==
    IF HasTool(a, name)
    THEN IF get_tool(a, name).ok THEN get_tool(a, name).value
         ELSE ErrorValue(get_tool(a, name).text)
    ELSE ErrorValue("Tool " \o name \o " not found")

\* The function calls of a response, in encountered order.
RECURSIVE function_calls(_)
function_calls(parts) ==
    IF parts = <<>> THEN <<>>
    ELSE IF Head(parts).p = "FunctionCall"
         THEN <<Head(parts).name>> \o function_calls(Tail(parts))
         ELSE function_calls(Tail(parts))

\* first_text that joins all the Text parts of the response.
RECURSIVE first_text_joined(_)
first_text_joined(parts) ==
    IF parts = <<>> THEN ""
    ELSE IF Head(parts).p = "Text" THEN Head(parts).text \o first_text_joined(Tail(parts))
    ELSE first_text_joined(Tail(parts))

\* run: the first non-empty Text part of a response, "" when there is none.
RECURSIVE first_text(_)
first_text(parts) ==
    IF parts = <<>> THEN ""
    ELSE IF Head(parts).p = "Text" /\ Head(parts).text # "" THEN Head(parts).text
    ELSE first_text(Tail(parts))

\* run_stream: the Text parts of a response pushed onto one string.
RECURSIVE text_content(_)
text_content(parts) ==
    IF parts = <<>> THEN ""
    ELSE IF Head(parts).p = "Text" THEN Head(parts).text \o text_content(Tail(parts))
    ELSE text_content(Tail(parts))

(***************************************************************************)
(* The graphs and inputs of the model.                                     *)
(***************************************************************************)
Inputs == {"x", "7"}

NodeIds == {"a", "b", "c"}
DeclaredIds == <<"b", "a", "c", "d">>
GeneralIds == {DeclaredIds[i] : i \in 1..MaxNodes}

PlainNode(id, agent, deps, mode) == CompiledNode(id, agent, deps, NoWhen, NoOutputs, mode)

\* Graphs of up to MaxNodes nodes, each with at most one dependency (also on
\* itself, in a cycle, or on an id that is no node), of which at most one
\* node fails.
DependencyShapes(id) ==
    {PlainNode(id, MockAgent("out-" \o id), d, "All") :
        d \in {<<>>} \cup {<<dep>> : dep \in GeneralIds}}

Failing(node) == [node EXCEPT !.agent = FailingAgent("boom")]

AtMostOneFails(nodes) ==
    {nodes} \cup {[nodes EXCEPT ![i] = Failing(nodes[i])] : i \in DOMAIN nodes}

RECURSIVE ShapeLists(_)
ShapeLists(n) ==
    IF n = 0 THEN {<<>>}
    ELSE {Append(nodes, shape) :
            <<nodes, shape>> \in ShapeLists(n - 1) \X DependencyShapes(DeclaredIds[n])}

DependencyGraphs ==
    UNION {UNION {AtMostOneFails(nodes) : nodes \in ShapeLists(n)} : n \in 1..MaxNodes}

\* The dependency lists of a joining node: two or more distinct ids.
JoinLists == {d \in SeqsUpTo(NodeIds, MaxDeps) : Len(d) >= 2 /\ Injective(d)}

Permutations3 == {p \in [1..3 -> NodeIds] : Injective(p)}

\* Two entry nodes and a node that joins them, in every declaration order.
JoinGraphs ==
    {[i \in 1..3 |->
        LET id == p[i]
        IN  IF id = "c" THEN PlainNode("c", MockAgent("out-c"), d, m)
            ELSE PlainNode(id, IF id \in f THEN FailingAgent("boom") ELSE MockAgent("out-" \o id),
                           <<>>, "All")] :
        <<p, d, m, f>> \in Permutations3 \X JoinLists \X {"All", "Any"}
                            \X SUBSET {"a", "b"}}

\* A, B that depends on A, and an independent C; any of them may fail.
IsolationGraphs ==
    {[i \in 1..3 |->
        LET id == p[i]
        IN  PlainNode(id, IF id \in f THEN FailingAgent("boom") ELSE MockAgent("out-" \o id),
                      IF id = "b" THEN <<"a">> ELSE <<>>, "All")] :
        <<p, f>> \in Permutations3 \X SUBSET NodeIds}

IntentEq(literal) == <<Kw("intent"), Kw("=="), Quoted(literal)>>
Unparsable == <<Kw("intent"), Kw("is"), Quoted("search")>>
WhenMenu == {NoWhen, When(IntentEq("search")), When(IntentEq("code")), When(Unparsable)}

IntentOutputs == ("intent" :> <<"intent">>)

ClassifierNodes ==
    {CompiledNode("a", agent, <<>>, NoWhen, outs, "All") :
        <<agent, outs>> \in
            {MockAgent("{\"intent\": \"search\"}"), MockAgent("{\"intent\": \"code\"}"),
             MockAgent("search"), FailingAgent("boom")} \X {NoOutputs, IntentOutputs}}

\* A branch either returns a plain result or rewrites the intent.
BranchNodes(id) ==
    {CompiledNode(id, ao[1], d, w, ao[2], "All") :
        <<ao, d, w>> \in
            {<<MockAgent(id \o "_result"), NoOutputs>>,
             <<MockAgent("{\"intent\": \"code\"}"), IntentOutputs>>}
            \X {<<>>, <<"a">>} \X WhenMenu}

\* A classifier and two branches gated on the intent it reports.
RoutingGraphs ==
    {<<cl, b, c>> : <<cl, b, c>> \in ClassifierNodes \X BranchNodes("b") \X BranchNodes("c")}

\* Graph workflows whose nodes a and b both write the state key findings,
\* with and without a state schema that declares findings as append.
FindingsOutputs == [some |-> TRUE, map |-> ("findings" :> <<"findings">>)]
AppendSchema == Schema("findings" :> [reducer |-> "append"])
FindingsWorkflows ==
    {[kind |-> "Graph",
      graph |-> GraphDefinition(schema,
        [i \in 1..2 |->
            IF order[i] = "a"
            THEN GraphNodeDefinition("a", MockAgent("{\"findings\": \"x\"}"), DependsOnNone,
                                     NoWhen, FindingsOutputs, "")
            ELSE GraphNodeDefinition("b", MockAgent("{\"findings\": [\"y\",\"z\"]}"), dep,
                                     NoWhen, FindingsOutputs, wait)])] :
        <<schema, order, dep, wait>> \in
            {NoSchema, AppendSchema} \X {<<"a", "b">>, <<"b", "a">>}
            \X {DependsOnNone, DependsOnSingle("a")} \X {"", "all", "any"}}

AgentMenu ==
    {TransformAgent("-A"), TransformAgent("-B"), MockAgent("42"), MockAgent("\"hi\""),
     MockAgent("{\"result\": \"done\"}"), FailingAgent("boom")}

Composites == {"sequential", "parallel", "loop"} \X SeqsUpTo(AgentMenu, MaxSteps)

\* A chain one node longer than the iteration cap.
ChainNodes ==
    [i \in 1..ChainLen |->
        PlainNode(ChainId(i), MockAgent("out"), IF i = 1 THEN <<>> ELSE <<ChainId(i - 1)>>, "All")]

Graphs ==
    {GraphAgentNew(nodes) :
        nodes \in DependencyGraphs \cup JoinGraphs \cup IsolationGraphs \cup RoutingGraphs
                  \cup {ChainNodes}}
    \cup {CompileGraph(normalize_composite(c[1], c[2]).nodes) : c \in Composites}
    \cup {CompileGraph(normalize_graph(def).nodes) : def \in FindingsWorkflows}

(***************************************************************************)
(* GraphAgent::run as a state machine.                                     *)
(***************************************************************************)
\* Nothing returned yet.
NoResult == Err("")

\* No LLMAgent or ReActAgent is under run.
NoAgent == LLMAgentNew("", ScriptedModel(<<>>, ModelErr("")), <<>>)
NoPlain == [ret |-> NoResult, trace |-> <<>>]

AgentOff ==
    /\ self = NoAgent
    /\ method = ""
    /\ apc = "off"
    /\ turn = 0
    /\ history = <<>>
    /\ resp = ModelErr("")
    /\ pending = <<>>
    /\ function_responses = <<>>
    /\ scratchpad = <<>>
    /\ trace = <<>>
    /\ ret = NoResult
    /\ plain = NoPlain

\* No manager, registry or function is under test.
AuxOff ==
    /\ services = <<>>
    /\ spawned = <<>>
    /\ registry = <<>>
    /\ task = <<>>
    /\ arg = <<>>
    /\ out = <<>>

\* A fresh channel whose receiver takes what is sent.
ChannelNew(receiver) ==
    /\ rx = receiver
    /\ sent = <<>>
    /\ taken = 0
    /\ outbox = <<>>

Init ==
    /\ AgentOff
    /\ ChannelNew("draining")
    /\ AuxOff
    /\ graph \in Graphs
    /\ input = ""
    /\ state = empty
    /\ completed = {}
    /\ iteration = 0
    /\ ready = <<>>
    /\ ready_state = EmptyMap
    /\ pc = "idle"
    /\ result = NoResult
    /\ log = <<>>

\* run is called: the state is created and seeded with the input.
RunBegin(in) ==
    /\ pc = "idle"
    /\ input' = in
    /\ state' = update(empty, "input", JString(in))
    /\ completed' = {}
    /\ iteration' = 0
    /\ pc' = "loop"
    /\ UNCHANGED <<aux_vars, agent_vars, chan_vars, graph, ready, ready_state, result, log>>

\* IterationCap that reports the exceeded cap as an error.
IterationCap_err ==
    /\ pc = "loop"
    /\ iteration + 1 > max_iterations
    /\ iteration' = iteration + 1
    /\ result' = Err("max iterations exceeded")
    /\ pc' = "done"
    /\ UNCHANGED <<aux_vars, agent_vars, chan_vars, graph, input, state, completed, ready, ready_state, log>>

\* The loop's head when the iteration cap is exceeded.
IterationCap ==
    /\ pc = "loop"
    /\ iteration + 1 > max_iterations
    /\ iteration' = iteration + 1
    /\ pc' = "format"
    /\ UNCHANGED <<aux_vars, agent_vars, chan_vars, graph, input, state, completed, ready, ready_state, result, log>>

\* The loop's head when no node is ready.
NoneReady ==
    /\ pc = "loop"
    /\ iteration + 1 <= max_iterations
    /\ get_ready_nodes(graph, completed, state) = <<>>
    /\ iteration' = iteration + 1
    /\ pc' = "format"
    /\ UNCHANGED <<aux_vars, agent_vars, chan_vars, graph, input, state, completed, ready, ready_state, result, log>>

\* The loop's head that marks the nodes it selects as completed.
SelectReady_marks ==
    /\ pc = "loop"
    /\ iteration + 1 <= max_iterations
    /\ get_ready_nodes(graph, completed, state) # <<>>
    /\ iteration' = iteration + 1
    /\ ready' = get_ready_nodes(graph, completed, state)
    /\ ready_state' = state.fields
    /\ completed' = completed \cup {ready'[i] : i \in DOMAIN ready'}
    /\ pc' = "exec"
    /\ UNCHANGED <<aux_vars, agent_vars, chan_vars, graph, input, state, result, log>>

\* The loop's head when some node is ready.
SelectReady ==
    /\ pc = "loop"
    /\ iteration + 1 <= max_iterations
    /\ get_ready_nodes(graph, completed, state) # <<>>
    /\ iteration' = iteration + 1
    /\ ready' = get_ready_nodes(graph, completed, state)
    /\ ready_state' = state.fields
    /\ pc' = "exec"
    /\ UNCHANGED <<aux_vars, agent_vars, chan_vars, graph, input, state, completed, result, log>>

Invocation(node, node_input, r) ==
    [id |-> node.id, input |-> node_input, ok |-> r.ok, text |-> r.text,
     at_fields |-> state.fields, at_completed |-> completed,
     sel_fields |-> ready_state, iteration |-> iteration]

\* One turn of the for loop over the ready list: the node's agent returns Ok.
ExecuteNodeOk ==
    /\ pc = "exec"
    /\ ready # <<>>
    /\ LET node == graph.nodes[Head(ready)]
           node_input == build_node_input(input, node, state)
           r == AgentRun(node.agent, node_input)
       IN  /\ r.ok
           /\ state' = apply_outputs(node, r.text, state)
           /\ completed' = completed \cup {Head(ready)}
           /\ log' = Append(log, Invocation(node, node_input, r))
    /\ ready' = Tail(ready)
    /\ pc' = IF Tail(ready) = <<>> THEN "loop" ELSE "exec"
    /\ UNCHANGED <<aux_vars, agent_vars, chan_vars, graph, input, iteration, ready_state, result>>

\* ExecuteNodeErr that completes the node without recording its error.
ExecuteNodeErr_silent ==
    /\ pc = "exec"
    /\ ready # <<>>
    /\ LET node == graph.nodes[Head(ready)]
           node_input == build_node_input(input, node, state)
           r == AgentRun(node.agent, node_input)
       IN  /\ ~r.ok
           /\ completed' = completed \cup {Head(ready)}
           /\ log' = Append(log, Invocation(node, node_input, r))
    /\ ready' = Tail(ready)
    /\ pc' = IF Tail(ready) = <<>> THEN "loop" ELSE "exec"
    /\ UNCHANGED <<aux_vars, agent_vars, chan_vars, graph, input, state, iteration, ready_state, result>>

\* ExecuteNodeErr that propagates the agent's error out of run.
ExecuteNodeErr_propagate ==
    /\ pc = "exec"
    /\ ready # <<>>
    /\ LET node == graph.nodes[Head(ready)]
           node_input == build_node_input(input, node, state)
           r == AgentRun(node.agent, node_input)
       IN  /\ ~r.ok
           /\ result' = Err(r.text)
           /\ log' = Append(log, Invocation(node, node_input, r))
    /\ pc' = "done"
    /\ UNCHANGED <<aux_vars, agent_vars, chan_vars, graph, input, state, completed, iteration, ready, ready_state>>

\* ExecuteNodeErr that leaves the failed node out of completed.
ExecuteNodeErr_retry ==
    /\ pc = "exec"
    /\ ready # <<>>
    /\ LET node == graph.nodes[Head(ready)]
           node_input == build_node_input(input, node, state)
           r == AgentRun(node.agent, node_input)
       IN  /\ ~r.ok
           /\ state' = update(state, Head(ready) \o ".error", JString(r.text))
           /\ log' = Append(log, Invocation(node, node_input, r))
    /\ ready' = Tail(ready)
    /\ pc' = IF Tail(ready) = <<>> THEN "loop" ELSE "exec"
    /\ UNCHANGED <<aux_vars, agent_vars, chan_vars, graph, input, completed, iteration, ready_state, result>>

\* One turn of the for loop over the ready list: the node's agent returns Err.
ExecuteNodeErr ==
    /\ pc = "exec"
    /\ ready # <<>>
    /\ LET node == graph.nodes[Head(ready)]
           node_input == build_node_input(input, node, state)
           r == AgentRun(node.agent, node_input)
       IN  /\ ~r.ok
           /\ state' = update(state, Head(ready) \o ".error", JString(r.text))
           /\ completed' = completed \cup {Head(ready)}
           /\ log' = Append(log, Invocation(node, node_input, r))
    /\ ready' = Tail(ready)
    /\ pc' = IF Tail(ready) = <<>> THEN "loop" ELSE "exec"
    /\ UNCHANGED <<aux_vars, agent_vars, chan_vars, graph, input, iteration, ready_state, result>>

\* After the loop: the response is formatted and returned as Ok.
Return ==
    /\ pc = "format"
    /\ result' = Ok(format_response(graph, state))
    /\ pc' = "done"
    /\ UNCHANGED <<aux_vars, agent_vars, chan_vars, graph, input, state, completed, iteration, ready, ready_state, log>>

Next ==
    \/ \E in \in Inputs : RunBegin(in)
    \/ IterationCap
    \/ NoneReady
    \/ SelectReady
    \/ ExecuteNodeOk
    \/ ExecuteNodeErr
    \/ Return

Spec == Init /\ [][Next]_vars

(***************************************************************************)
(* Properties of GraphAgent::run.                                          *)
(***************************************************************************)
LogIds == {log[i].id : i \in DOMAIN log}
NodeOf(entry) == graph.nodes[entry.id]
OutputKey(id) == "output." \o id
ErrorKey(id) == id \o ".error"

\* C1: a node with a non-empty dependency list is invoked only when its
\* dependencies are in the completed set: all of them in All mode, at least
\* one in Any mode; a node with an empty list is always dependency-satisfied.
C1_DependenciesBeforeInvocation ==
    /\ \A i \in DOMAIN log :
          LET deps == Range(NodeOf(log[i]).depends_on)
          IN  deps # {} =>
                IF NodeOf(log[i]).wait_mode = "All"
                THEN deps \subseteq log[i].at_completed
                ELSE deps \cap log[i].at_completed # {}
    /\ \A id \in DOMAIN graph.nodes :
          graph.nodes[id].depends_on = <<>> =>
              /\ dependencies_satisfied(graph.nodes[id], completed)
              /\ dependencies_satisfied(graph.nodes[id], {})

\* A node that waits for all of two dependencies has been invoked.
C1_Witness ==
    \E i \in DOMAIN log :
        /\ NodeOf(log[i]).wait_mode = "All"
        /\ Cardinality(Range(NodeOf(log[i]).depends_on)) >= 2
        /\ log[i].iteration >= 2

\* C2: every node that was executed has exactly one of output.<id> (its agent
\* succeeded) and <id>.error (its agent failed) in the state.
C2_OutputXorError ==
    \A i \in DOMAIN log :
        /\ HasKey(state, OutputKey(log[i].id)) # HasKey(state, ErrorKey(log[i].id))
        /\ log[i].ok <=> HasKey(state, OutputKey(log[i].id))

\* A finished run in which one node succeeded with a text that is not JSON
\* and another one failed.
C2_Witness ==
    /\ pc = "done"
    /\ \E i, j \in DOMAIN log :
          /\ log[i].ok /\ ~from_str(log[i].text).ok
          /\ ~log[j].ok

\* C3: a failing agent does not fail or stop the run: its error text is at
\* <id>.error, the node is completed and has no output.<id>, the run returns
\* Ok, and when the run ends below the iteration cap every node without a
\* condition whose dependencies were all executed (failed or not) was
\* executed too.
C3_ErrorIsolation ==
    /\ \A i \in DOMAIN log :
          ~log[i].ok =>
              /\ log[i].id \in completed
              /\ HasKey(state, ErrorKey(log[i].id))
              /\ get(state, ErrorKey(log[i].id)) = JString(log[i].text)
              /\ ~HasKey(state, OutputKey(log[i].id))
    /\ pc = "done" => result.ok
    /\ (pc = "done" /\ iteration <= max_iterations) =>
          \A id \in DOMAIN graph.nodes :
              (/\ ~graph.nodes[id].when.some
               /\ graph.nodes[id].wait_mode = "All"
               /\ Range(graph.nodes[id].depends_on) \subseteq LogIds) => id \in LogIds

\* A fails; C, ready in the same iteration after A, has its own output; B,
\* which depends on A, ran afterwards on the original input.
C3_Witness ==
    /\ pc = "done"
    /\ graph.node_order = <<"a", "b", "c">>
    /\ \E i, j, k \in DOMAIN log :
          /\ log[i].id = "a" /\ ~log[i].ok
          /\ log[j].id = "c" /\ log[j].ok /\ i < j /\ log[j].iteration = log[i].iteration
          /\ log[k].id = "b" /\ log[k].ok /\ NodeOf(log[k]).depends_on = <<"a">>
          /\ log[k].input = input
    /\ get(state, OutputKey("c")) = JString("out-c")
    /\ get(state, OutputKey("b")) = JString("out-b")

\* What is left of a run: strictly smaller after every step.
Remaining ==
    CASE pc = "idle" -> (max_iterations + 2) * (ChainLen + 1) + 2
      [] pc \in {"loop", "exec"} ->
            (max_iterations + 1 - iteration) * (ChainLen + 1) + Len(ready) + 2
      [] pc = "format" -> 1
      [] pc = "done" -> 0

\* C4: every run terminates (cycles, unknown dependency ids and conditions
\* that never hold included): up to the end of the loop a step is always
\* possible, after it only Return is left, and every step decreases the
\* natural number Remaining; the loop makes at most max_iterations
\* iterations, it leaves as soon as no node is ready, and run returns Ok,
\* also when the cap is what ended it.
C4_Termination ==
    /\ [](pc \in {"idle", "loop", "exec"} => ENABLED Next)
    /\ [](pc \in {"idle", "loop", "exec", "format", "done"})
    /\ [](Remaining \in Nat)
    /\ [][Remaining' < Remaining]_vars
    /\ [](iteration <= max_iterations + 1)
    /\ [](\A i \in DOMAIN log : log[i].iteration <= max_iterations)
    /\ [](pc = "exec" => ready # <<>>)
    /\ [][(pc = "loop" /\ get_ready_nodes(graph, completed, state) = <<>>)
            => pc' = "format"]_vars
    /\ [](pc = "done" => result.ok)

\* The chain longer than the cap: the run ended by the cap, with Ok, after
\* max_iterations nodes.
C4_Witness ==
    /\ pc = "done"
    /\ result.ok
    /\ iteration = max_iterations + 1
    /\ Cardinality(completed) = max_iterations
    /\ get_ready_nodes(graph, completed, state) # <<>>

\* C5: every completed node that has a when clause was executed after being
\* selected in an iteration at whose start the clause parsed and evaluated
\* to true.
C5_ConditionHeldAtSelection ==
    \A id \in completed :
        graph.nodes[id].when.some =>
            \E i \in DOMAIN log :
                LET parsed == parse(graph.nodes[id].when.toks)
                IN  /\ log[i].id = id
                    /\ parsed.ok
                    /\ evaluate(parsed.expr,
                                [fields |-> log[i].sel_fields, reducers |-> state.reducers])

\* A node gated on the intent ran although a node selected with it had
\* changed the intent before its turn.
C5_Witness ==
    \E i \in DOMAIN log :
        /\ NodeOf(log[i]).when.some
        /\ log[i].sel_fields # log[i].at_fields
        /\ "intent" \in DOMAIN log[i].sel_fields
        /\ log[i].at_fields["intent"] # log[i].sel_fields["intent"]

\* The routing scenario: classifier a reports {"intent": v} and maps it to
\* the state key intent; b and c depend on a, are gated on intent == '<lit>'
\* and return plain results.
Intents == {"search", "code"}
IntentJson(v) == "{\"intent\": \"" \o v \o "\"}"
IsBranch(id) ==
    /\ graph.nodes[id].depends_on = <<"a">>
    /\ graph.nodes[id].outputs = NoOutputs
    /\ \E lit \in Intents : graph.nodes[id].when = When(IntentEq(lit))
RoutingCase ==
    /\ graph.node_order = <<"a", "b", "c">>
    /\ graph.nodes["a"].outputs = IntentOutputs
    /\ \E v \in Intents : graph.nodes["a"].agent = MockAgent(IntentJson(v))
    /\ IsBranch("b")
    /\ IsBranch("c")
ReportedIntent == CHOOSE v \in Intents : graph.nodes["a"].agent = MockAgent(IntentJson(v))
Matching == {id \in {"b", "c"} : graph.nodes[id].when = When(IntentEq(ReportedIntent))}

C7_NodeInput ==
    \A i \in DOMAIN log :
        LET deps == NodeOf(log[i]).depends_on
            key == OutputKey(deps[Len(deps)])
            fields == log[i].at_fields
        IN  IF deps = <<>> THEN log[i].input = input
            ELSE IF key \notin DOMAIN fields THEN log[i].input = input
            ELSE IF fields[key].t = "String" THEN log[i].input = fields[key].s
            ELSE log[i].input = to_string(fields[key])

\* A node with two dependencies ran on its last dependency's output while
\* the first one's output was a different value.
C7_Witness ==
    \E i \in DOMAIN log :
        LET deps == NodeOf(log[i]).depends_on
        IN  /\ Len(deps) = 2
            /\ OutputKey(deps[1]) \in DOMAIN log[i].at_fields
            /\ OutputKey(deps[2]) \in DOMAIN log[i].at_fields
            /\ log[i].at_fields[OutputKey(deps[1])] # log[i].at_fields[OutputKey(deps[2])]
            /\ log[i].input = log[i].at_fields[OutputKey(deps[2])].s

\* A finished run of a sequential composite of one or more agents that all
\* succeed.
StepAgents == [i \in DOMAIN graph.node_order |-> graph.nodes[graph.node_order[i]].agent]
SequentialCase ==
    /\ pc = "done"
    /\ graph.node_order # <<>>
    /\ \A i \in DOMAIN graph.node_order : graph.node_order[i] = CompositeId("step_", i - 1)
    /\ \A i \in DOMAIN StepAgents : StepAgents[i].kind # "failing"
StepsInOrder ==
    /\ Len(log) = Len(graph.node_order)
    /\ \A i \in DOMAIN log :
          /\ log[i].id = graph.node_order[i]
          /\ log[i].ok
          /\ i > 1 => log[i].iteration > log[i - 1].iteration
    /\ log[1].input = input
PlainOutputs == \A i \in DOMAIN log : ~from_str(log[i].text).ok
\* What a successor is handed, and what run returns, for a step's output.
HandedOn(text) ==
    LET json == from_str(text)
    IN  IF ~json.ok THEN text
        ELSE IF json.v.t = "String" THEN json.v.s ELSE to_string(json.v)
Returned(text) ==
    LET json == from_str(text)
    IN  IF json.ok THEN value_to_text(json.v) ELSE text

IsTerminal(id) == \A n \in DOMAIN graph.nodes : id \notin Range(graph.nodes[n].depends_on)
TerminalWithOutput == {id \in DOMAIN graph.nodes : IsTerminal(id) /\ HasKey(state, OutputKey(id))}
Rendering(id) == value_to_text(get(state, OutputKey(id)))
Orderings(S) == {p \in [1..Cardinality(S) -> S] : Injective(p)}

\* C9: the result of run consists of the text renderings of the outputs of
\* the terminal nodes, each once and nothing else, with the separator between
\* them; with exactly one terminal output it is that rendering alone.
C9_TerminalOutputsOnly ==
    pc = "done" =>
        /\ \E p \in Orderings(TerminalWithOutput) :
              result = Ok(JoinStr([i \in DOMAIN p |-> Rendering(p[i])], Separator))
        /\ \A id \in TerminalWithOutput :
              TerminalWithOutput = {id} => result = Ok(Rendering(id))

\* One terminal node has an output, a node it depends on has a different
\* one, and the result is the terminal node's.
C9_Witness ==
    /\ pc = "done"
    /\ \E id \in TerminalWithOutput :
          /\ TerminalWithOutput = {id}
          /\ result = Ok(Rendering(id))
          /\ \E d \in Range(graph.nodes[id].depends_on) :
                /\ HasKey(state, OutputKey(d))
                /\ Rendering(d) # Rendering(id)

\* The terminal nodes that have an output, in declaration order.
TerminalInOrder ==
    SelectSeq(graph.node_order, LAMBDA id : id \in TerminalWithOutput)

\* C10 as stated: with two or more terminal outputs run returns their
\* renderings joined by the separator in node declaration order.
C10_DeclarationOrder ==
    (pc = "done" /\ Len(TerminalInOrder) >= 2) =>
        result = Ok(JoinStr([i \in DOMAIN TerminalInOrder |-> Rendering(TerminalInOrder[i])],
                            Separator))

\* Nodes declared b then a, both terminal: the result lists a's output first.
C10_Witness ==
    /\ pc = "done"
    /\ graph.node_order = <<"b", "a">>
    /\ TerminalInOrder = <<"b", "a">>
    /\ log[1].id = "b"
    /\ result = Ok(Rendering("a") \o Separator \o Rendering("b"))
    /\ Rendering("a") # Rendering("b")

\* C11 as stated: at every point of a run the state has a field output.X for
\* every node X in the completed set.
C11_AsStated ==
    \A id \in completed : HasKey(state, OutputKey(id))

\* C11, amended: at every point of a run, for every node X in the completed
\* set the state has output.X if X's agent succeeded, and X.error and no
\* output.X if it failed.
C11_CompletedOutputOrError ==
    \A id \in completed :
        IF graph.nodes[id].agent.kind = "failing"
        THEN HasKey(state, ErrorKey(id)) /\ ~HasKey(state, OutputKey(id))
        ELSE HasKey(state, OutputKey(id)) /\ ~HasKey(state, ErrorKey(id))

\* In the middle of an iteration the completed set holds a node that failed
\* and one that succeeded.
C11_Witness ==
    /\ pc = "exec"
    /\ \E x, y \in completed :
          /\ graph.nodes[x].agent.kind = "failing"
          /\ graph.nodes[y].agent.kind # "failing"

\* A finished run of a graph workflow whose state schema declares findings
\* with the append reducer, in which a wrote findings before b.
FindingsDeclared ==
    \E def \in FindingsWorkflows :
        /\ def.graph.state.some
        /\ def.graph.state.fields["findings"].reducer = "append"
        /\ graph = CompileGraph(normalize_graph(def).nodes)
FindingsCase ==
    /\ pc = "done"
    /\ FindingsDeclared
    /\ Len(log) = 2 /\ log[1].id = "a" /\ log[2].id = "b"

\* C12 as stated: when findings is declared append and a writes "x", then b
\* writes ["y","z"], the final state has findings = ["x","y","z"].
C12_AppendAccumulates ==
    FindingsCase =>
        get(state, "findings") = JArray(<<JString("x"), JString("y"), JString("z")>>)

\* In that run the final findings is b's write alone.
C12_Witness ==
    /\ FindingsCase
    /\ get(state, "findings") = JArray(<<JString("y"), JString("z")>>)

(***************************************************************************)
(* LLMAgent::run and LLMAgent::run_stream as a state machine.              *)
(***************************************************************************)
max_turns == 10
MaxResponses == 1
ChannelCapacity == 2

\* The agent's tools: t1 answers, bad fails; no tool is named missing.
Tools == <<ToolOk("t1", JString("old")), ToolErr("bad", "boom"), ToolOk("t1", JString("r1"))>>

ResponseMenu ==
    {ModelOk(<<Text("hello")>>),
     ModelOk(<<Text("a"), Text("b")>>),
     ModelOk(<<FunctionCall("t1")>>),
     ModelOk(<<FunctionCall("bad"), FunctionCall("t1")>>),
     ModelOk(<<FunctionCall("missing"), FunctionCall("bad"), FunctionCall("t1")>>),
     ModelOk(<<Text(""), FunctionCall("t1")>>),
     ModelOk(<<FunctionCall("t1"), Text("note")>>),
     ModelOk(<<>>),
     ModelErr("model down")}

Models ==
    {ScriptedModel(rs, rest) : rs \in SeqsUpTo(ResponseMenu, MaxResponses), rest \in ResponseMenu}

LLMAgents == {LLMAgentNew("be brief", m, Tools) : m \in Models}

\* No graph is under run.
GraphOff ==
    /\ graph = GraphAgentNew(<<>>)
    /\ input = ""
    /\ state = empty
    /\ completed = {}
    /\ iteration = 0
    /\ ready = <<>>
    /\ ready_state = EmptyMap
    /\ pc = "off"
    /\ result = NoResult
    /\ log = <<>>

\* The entries of the trace.
ModelCall(h) == [op |-> "generate_content", name |-> "", history |-> h]
ToolExecution(name) == [op |-> "execute", name |-> name, history |-> <<>>]

LlmInit ==
    /\ GraphOff
    /\ ChannelNew("draining")
    /\ AuxOff
    /\ self \in LLMAgents
    /\ method = ""
    /\ apc = "idle"
    /\ turn = 0
    /\ history = <<>>
    /\ resp = ModelErr("")
    /\ pending = <<>>
    /\ function_responses = <<>>
    /\ scratchpad = <<>>
    /\ trace = <<>>
    /\ ret = NoResult
    /\ plain = NoPlain

\* The history a run starts with.
InitialHistory(in) ==
    <<Content("system", <<Text(self.instruction)>>), Content("user", <<Text(in)>>)>>

\* run is called.
LlmRun(in) ==
    /\ apc = "idle"
    /\ method' = "run"
    /\ history' = InitialHistory(in)
    /\ turn' = 0
    /\ apc' = "turn"
    /\ UNCHANGED <<aux_vars, graph_vars, chan_vars, self, resp, pending, function_responses,
                   scratchpad, trace, ret, plain>>

\* RunMaxTurns that returns an empty answer instead of the error.
RunMaxTurns_empty ==
    /\ method = "run"
    /\ apc = "turn"
    /\ turn >= max_turns
    /\ ret' = Ok("")
    /\ apc' = "done"
    /\ UNCHANGED <<aux_vars, graph_vars, chan_vars, self, method, turn, history, resp, pending,
                   function_responses, scratchpad, trace, plain>>

\* run: the for loop is over.
RunMaxTurns ==
    /\ method = "run"
    /\ apc = "turn"
    /\ turn >= max_turns
    /\ ret' = Err("Max turns reached")
    /\ apc' = "done"
    /\ UNCHANGED <<aux_vars, graph_vars, chan_vars, self, method, turn, history, resp, pending,
                   function_responses, scratchpad, trace, plain>>

\* The head of a turn that pushes the response to the history before it
\* looks for a text.
RunGenerate_records ==
    /\ method = "run"
    /\ apc = "turn"
    /\ turn < max_turns
    /\ LET response == generate_content(self.model, turn + 1)
       IN  /\ trace' = Append(trace, ModelCall(history))
           /\ resp' = response
           /\ history' = IF response.ok THEN Append(history, Content("model", response.parts))
                         ELSE history
           /\ IF ~response.ok
              THEN ret' = Err(response.text) /\ apc' = "done" /\ pending' = <<>>
              ELSE IF first_text(response.parts) # ""
              THEN ret' = Ok(first_text(response.parts)) /\ apc' = "done" /\ pending' = <<>>
              ELSE IF function_calls(response.parts) = <<>>
              THEN ret' = Ok("") /\ apc' = "done" /\ pending' = <<>>
              ELSE ret' = ret /\ apc' = "tools" /\ pending' = function_calls(response.parts)
    /\ function_responses' = <<>>
    /\ UNCHANGED <<aux_vars, graph_vars, chan_vars, self, method, turn, scratchpad, plain>>

\* run: the head of a turn, from the model call to the collected function calls.
RunGenerate ==
    /\ method = "run"
    /\ apc = "turn"
    /\ turn < max_turns
    /\ LET response == generate_content(self.model, turn + 1)
       IN  /\ trace' = Append(trace, ModelCall(history))
           /\ resp' = response
           /\ IF ~response.ok
              THEN ret' = Err(response.text) /\ apc' = "done" /\ pending' = <<>>
              ELSE IF first_text(response.parts) # ""
              THEN ret' = Ok(first_text(response.parts)) /\ apc' = "done" /\ pending' = <<>>
              ELSE IF function_calls(response.parts) = <<>>
              THEN ret' = Ok("") /\ apc' = "done" /\ pending' = <<>>
              ELSE ret' = ret /\ apc' = "tools" /\ pending' = function_calls(response.parts)
    /\ function_responses' = <<>>
    /\ UNCHANGED <<aux_vars, graph_vars, chan_vars, self, method, turn, history, scratchpad, plain>>

\* RunTool that fails the run when the tool is missing or its execute fails.
RunTool_fails ==
    /\ method = "run"
    /\ apc = "tools"
    /\ pending # <<>>
    /\ LET name == Head(pending)
           found == HasTool(self, name)
       IN  /\ trace' = IF found THEN Append(trace, ToolExecution(name)) ELSE trace
           /\ IF found /\ get_tool(self, name).ok
              THEN /\ function_responses' =
                         Append(function_responses, FunctionResponse(name, get_tool(self, name).value))
                   /\ UNCHANGED <<apc, ret>>
              ELSE /\ ret' = Err(IF found THEN get_tool(self, name).text
                                 ELSE "Tool " \o name \o " not found")
                   /\ apc' = "done"
                   /\ UNCHANGED function_responses
    /\ pending' = Tail(pending)
    /\ UNCHANGED <<aux_vars, graph_vars, chan_vars, self, method, turn, history, resp, scratchpad, plain>>

\* run: one turn of the loop over the function calls.
RunTool ==
    /\ method = "run"
    /\ apc = "tools"
    /\ pending # <<>>
    /\ LET name == Head(pending)
       IN  /\ trace' = IF HasTool(self, name) THEN Append(trace, ToolExecution(name)) ELSE trace
           /\ function_responses' =
                  Append(function_responses, FunctionResponse(name, tool_response(self, name)))
    /\ pending' = Tail(pending)
    /\ UNCHANGED <<aux_vars, graph_vars, chan_vars, self, method, apc, turn, history, resp,
                   scratchpad, ret, plain>>

\* RunTurnEnd that pushes the tool responses before the model's response.
RunTurnEnd_results_first ==
    /\ method = "run"
    /\ apc = "tools"
    /\ pending = <<>>
    /\ history' = history \o <<Content("user", function_responses), Content("model", resp.parts)>>
    /\ turn' = turn + 1
    /\ apc' = "turn"
    /\ UNCHANGED <<aux_vars, graph_vars, chan_vars, self, method, resp, pending, function_responses,
                   scratchpad, trace, ret, plain>>

\* run: the end of a turn, the response and the tool responses go to the history.
RunTurnEnd ==
    /\ method = "run"
    /\ apc = "tools"
    /\ pending = <<>>
    /\ history' = history \o <<Content("model", resp.parts), Content("user", function_responses)>>
    /\ turn' = turn + 1
    /\ apc' = "turn"
    /\ UNCHANGED <<aux_vars, graph_vars, chan_vars, self, method, resp, pending, function_responses,
                   scratchpad, trace, ret, plain>>

\* run_stream is called on an agent of the same construction, once the plain
\* run has returned; the outcome and the trace of the plain run are kept.
LlmRunStream(receiver) ==
    /\ method = "run"
    /\ apc = "done"
    /\ plain' = [ret |-> ret, trace |-> trace]
    /\ method' = "run_stream"
    /\ history' = InitialHistory(history[2].parts[1].text)
    /\ turn' = 0
    /\ trace' = <<>>
    /\ ret' = NoResult
    /\ apc' = "turn"
    /\ rx' = receiver
    /\ UNCHANGED <<aux_vars, graph_vars, sent, taken, outbox, self, resp, pending,
                   function_responses, scratchpad>>

\* run_stream: the for loop is over.
StreamMaxTurns ==
    /\ method = "run_stream"
    /\ apc = "turn"
    /\ outbox = <<>>
    /\ turn >= max_turns
    /\ ret' = Err("Max turns reached")
    /\ apc' = "done"
    /\ UNCHANGED <<aux_vars, graph_vars, chan_vars, self, method, turn, history, resp, pending,
                   function_responses, scratchpad, trace, plain>>

\* run_stream: the head of a turn, from the model call to the first send.
StreamGenerate ==
    /\ method = "run_stream"
    /\ apc = "turn"
    /\ outbox = <<>>
    /\ turn < max_turns
    /\ LET response == generate_content(self.model, turn + 1)
           text == text_content(response.parts)
           calls == function_calls(response.parts)
       IN  /\ trace' = Append(trace, ModelCall(history))
           /\ resp' = response
           /\ IF ~response.ok
              THEN ret' = Err(response.text) /\ apc' = "done" /\ pending' = <<>>
                   /\ outbox' = <<>>
              ELSE IF calls = <<>> /\ text # ""
              THEN ret' = ret /\ apc' = "answer" /\ pending' = <<>>
                   /\ outbox' = <<Answer(text)>>
              ELSE IF calls = <<>>
              THEN ret' = Ok("") /\ apc' = "done" /\ pending' = <<>>
                   /\ outbox' = <<>>
              ELSE ret' = ret /\ apc' = "tools" /\ pending' = calls
                   /\ outbox' = IF text # "" THEN <<Thought(text)>> ELSE <<>>
    /\ function_responses' = <<>>
    /\ UNCHANGED <<aux_vars, graph_vars, rx, sent, taken, self, method, turn, history, scratchpad, plain>>

\* run_stream: the Answer was sent, the text is returned.
StreamReturn ==
    /\ method = "run_stream"
    /\ apc = "answer"
    /\ outbox = <<>>
    /\ ret' = Ok(text_content(resp.parts))
    /\ apc' = "done"
    /\ UNCHANGED <<aux_vars, graph_vars, chan_vars, self, method, turn, history, resp, pending,
                   function_responses, scratchpad, trace, plain>>

\* run_stream: a turn of the loop over the function calls begins, the ToolCall
\* event is to be sent.
StreamToolCall ==
    /\ method = "run_stream"
    /\ apc = "tools"
    /\ outbox = <<>>
    /\ pending # <<>>
    /\ outbox' = <<ToolCall(Head(pending))>>
    /\ apc' = "execute"
    /\ UNCHANGED <<aux_vars, graph_vars, rx, sent, taken, self, method, turn, history, resp, pending,
                   function_responses, scratchpad, trace, ret, plain>>

\* StreamTool that sends the ToolResult event before the Error event.
StreamTool_result_first ==
    /\ method = "run_stream"
    /\ apc = "execute"
    /\ outbox = <<>>
    /\ LET name == Head(pending)
           failure == IF ~HasTool(self, name) THEN <<Error("Tool " \o name \o " not found")>>
                      ELSE IF ~get_tool(self, name).ok
                      THEN <<Error("Tool " \o name \o " failed: " \o get_tool(self, name).text)>>
                      ELSE <<>>
       IN  /\ trace' = IF HasTool(self, name) THEN Append(trace, ToolExecution(name)) ELSE trace
           /\ outbox' = <<ToolResult(name, tool_response(self, name))>> \o failure
           /\ function_responses' =
                  Append(function_responses, FunctionResponse(name, tool_response(self, name)))
    /\ pending' = Tail(pending)
    /\ apc' = "tools"
    /\ UNCHANGED <<aux_vars, graph_vars, rx, sent, taken, self, method, turn, history, resp,
                   scratchpad, ret, plain>>

\* run_stream: the tool is looked up and executed, its Error and ToolResult
\* events are to be sent.
StreamTool ==
    /\ method = "run_stream"
    /\ apc = "execute"
    /\ outbox = <<>>
    /\ LET name == Head(pending)
           failure == IF ~HasTool(self, name) THEN <<Error("Tool " \o name \o " not found")>>
                      ELSE IF ~get_tool(self, name).ok
                      THEN <<Error("Tool " \o name \o " failed: " \o get_tool(self, name).text)>>
                      ELSE <<>>
       IN  /\ trace' = IF HasTool(self, name) THEN Append(trace, ToolExecution(name)) ELSE trace
           /\ outbox' = failure \o <<ToolResult(name, tool_response(self, name))>>
           /\ function_responses' =
                  Append(function_responses, FunctionResponse(name, tool_response(self, name)))
    /\ pending' = Tail(pending)
    /\ apc' = "tools"
    /\ UNCHANGED <<aux_vars, graph_vars, rx, sent, taken, self, method, turn, history, resp,
                   scratchpad, ret, plain>>

\* run_stream: the end of a turn.
StreamTurnEnd ==
    /\ method = "run_stream"
    /\ apc = "tools"
    /\ outbox = <<>>
    /\ pending = <<>>
    /\ history' = history \o <<Content("model", resp.parts), Content("user", function_responses)>>
    /\ turn' = turn + 1
    /\ apc' = "turn"
    /\ UNCHANGED <<aux_vars, graph_vars, chan_vars, self, method, resp, pending, function_responses,
                   scratchpad, trace, ret, plain>>

\* tokio::sync::mpsc::Sender::send(..).await on the bounded channel: the send
\* completes when the channel has room, it waits while the channel is full, and
\* it fails at once, the event lost, when the receiver is gone.
Send ==
    /\ outbox # <<>>
    /\ IF rx = "dropped"
       THEN sent' = sent
       ELSE /\ Len(sent) - taken < ChannelCapacity
            /\ sent' = Append(sent, Head(outbox))
    /\ outbox' = Tail(outbox)
    /\ UNCHANGED <<aux_vars, graph_vars, agent_vars, rx, taken>>

\* The receiver takes the next event.
Receive ==
    /\ rx = "draining"
    /\ taken < Len(sent)
    /\ taken' = taken + 1
    /\ UNCHANGED <<aux_vars, graph_vars, agent_vars, rx, sent, outbox>>

Receivers == {"draining", "stalled", "dropped"}

LlmNext ==
    \/ \E in \in Inputs : LlmRun(in)
    \/ RunMaxTurns
    \/ RunGenerate
    \/ RunTool
    \/ RunTurnEnd
    \/ \E receiver \in Receivers : LlmRunStream(receiver)
    \/ StreamMaxTurns
    \/ StreamGenerate
    \/ StreamReturn
    \/ StreamToolCall
    \/ StreamTool
    \/ StreamTurnEnd
    \/ Send
    \/ Receive

LlmSpec == LlmInit /\ [][LlmNext]_vars

(***************************************************************************)
(* Properties of LLMAgent::run and LLMAgent::run_stream.                   *)
(***************************************************************************)
\* The number of model calls in a trace.
RECURSIVE ModelCalls(_)
ModelCalls(t) ==
    IF t = <<>> THEN 0
    ELSE (IF Head(t).op = "generate_content" THEN 1 ELSE 0) + ModelCalls(Tail(t))

\* A response with function calls and no non-empty text.
ToolCallsOnly(r) ==
    /\ r.ok
    /\ function_calls(r.parts) # <<>>
    /\ \A i \in DOMAIN r.parts : r.parts[i].p = "Text" => r.parts[i].text = ""

MaxTurnsCase == \A n \in 1..max_turns : ToolCallsOnly(generate_content(self.model, n))

\* C13: run and run_stream call the model at most 10 times per run; when each of
\* the 10 responses has function calls and no non-empty text, the method
\* returns the error "Max turns reached", after exactly 10 model calls.
C13_MaxTurns ==
    /\ ModelCalls(trace) <= max_turns
    /\ ModelCalls(plain.trace) <= max_turns
    /\ (apc = "done" /\ MaxTurnsCase) =>
           /\ ret = Err("Max turns reached")
           /\ ModelCalls(trace) = max_turns
    /\ (apc = "done" /\ ret = Err("Max turns reached")) => ModelCalls(trace) = max_turns

C13_Witness ==
    /\ method = "run_stream"
    /\ apc = "done"
    /\ MaxTurnsCase
    /\ plain.ret = Err("Max turns reached")
    /\ ModelCalls(plain.trace) = max_turns
    /\ ret = Err("Max turns reached")
    /\ ModelCalls(trace) = max_turns

\* The part is a Text part with a non-empty string.
NonEmptyText(part) == part.p = "Text" /\ part.text # ""

\* The plain run has returned.
RunDone == method = "run" /\ apc = "done"

\* C14: run returns the string of the first non-empty Text part of a response
\* as soon as a response has one: unchanged, no function call of that response
\* executed, no further model call; a non-empty text in the first response is
\* returned after exactly one model call.
C14_FirstTextReturned ==
    /\ (method = "run" /\ apc = "tools") =>
           \A i \in DOMAIN resp.parts : ~NonEmptyText(resp.parts[i])
    /\ (RunDone /\ \E i \in DOMAIN resp.parts : NonEmptyText(resp.parts[i])) =>
           /\ \E i \in DOMAIN resp.parts :
                 /\ NonEmptyText(resp.parts[i])
                 /\ \A j \in 1..(i - 1) : ~NonEmptyText(resp.parts[j])
                 /\ ret = Ok(resp.parts[i].text)
           /\ trace[Len(trace)] = ModelCall(history)
           /\ ModelCalls(trace) = turn + 1
    /\ (RunDone /\ \E i \in DOMAIN generate_content(self.model, 1).parts :
                       NonEmptyText(generate_content(self.model, 1).parts[i])) =>
           /\ ModelCalls(trace) = 1
           /\ Len(trace) = 1

C14_Witness ==
    /\ RunDone
    /\ resp = ModelOk(<<FunctionCall("t1"), Text("note")>>)
    /\ ret = Ok("note")
    /\ turn = 1
    /\ Len(trace) = 3

\* The part of a trace after its n-th model call.
RECURSIVE AfterCall(_, _)
AfterCall(t, n) ==
    IF t = <<>> \/ n = 0 THEN t
    ELSE AfterCall(Tail(t), IF Head(t).op = "generate_content" THEN n - 1 ELSE n)

\* The part of a trace before its first model call.
RECURSIVE BeforeCall(_)
BeforeCall(t) ==
    IF t = <<>> \/ Head(t).op = "generate_content" THEN <<>>
    ELSE <<Head(t)>> \o BeforeCall(Tail(t))

\* The history the n-th model call of the trace was given.
HistoryOfCall(n) == SelectSeq(trace, LAMBDA entry : entry.op = "generate_content")[n].history

\* The tool executions made between the n-th model call and the next one.
ExecutionsOfTurn(n) == BeforeCall(AfterCall(trace, n))

\* The executions the function calls of a response ask for: one for each call
\* that names a tool of the agent, in the order of the calls.
RECURSIVE Executions(_)
Executions(names) ==
    IF names = <<>> THEN <<>>
    ELSE (IF HasTool(self, Head(names)) THEN <<ToolExecution(Head(names))>> ELSE <<>>)
         \o Executions(Tail(names))

\* C15: a response without non-empty text and with k >= 1 function calls has its
\* k calls executed one after another in encountered order; then the history
\* gets the model's response followed by exactly one user Content of k
\* FunctionResponse parts named as the calls, in the same order; the next model
\* call is given that extended history.
C15_ToolTurn ==
    \A n \in 1..ModelCalls(trace) :
        LET r == generate_content(self.model, n)
            calls == function_calls(r.parts)
            turn_over == n < ModelCalls(trace) \/ (apc \in {"turn", "done"} /\ turn >= n)
        IN  (ToolCallsOnly(r) /\ turn_over) =>
               /\ ExecutionsOfTurn(n) = Executions(calls)
               /\ Len(history) >= 2 * n + 2
               /\ \A i \in 1..(2 * n) : history[i] = HistoryOfCall(n)[i]
               /\ Len(HistoryOfCall(n)) = 2 * n
               /\ history[2 * n + 1] = Content("model", r.parts)
               /\ history[2 * n + 2].role = "user"
               /\ Len(history[2 * n + 2].parts) = Len(calls)
               /\ \A i \in DOMAIN calls :
                     /\ history[2 * n + 2].parts[i].p = "FunctionResponse"
                     /\ history[2 * n + 2].parts[i].name = calls[i]
               /\ n < ModelCalls(trace) =>
                     /\ Len(HistoryOfCall(n + 1)) = 2 * n + 2
                     /\ \A i \in 1..(2 * n + 2) : HistoryOfCall(n + 1)[i] = history[i]

C15_Witness ==
    /\ RunDone
    /\ generate_content(self.model, 1) = ModelOk(<<FunctionCall("bad"), FunctionCall("t1")>>)
    /\ ModelCalls(trace) = 2
    /\ ExecutionsOfTurn(1) = <<ToolExecution("bad"), ToolExecution("t1")>>
    /\ Len(HistoryOfCall(2)) = 4
    /\ ret = Ok("hello")

\* What the calls of the model's responses are to be answered with: t1 with
\* the value of the tool, bad and missing with an error object.
Answered ==
    [name \in {"t1", "bad", "missing"} |->
        CASE name = "t1" -> JString("r1")
          [] name = "bad" -> JObject(<<Member("error", JString("boom"))>>)
          [] name = "missing" -> JObject(<<Member("error", JString("Tool missing not found"))>>)]

\* C16: a function call that names a tool the agent does not have, or whose
\* tool fails, never makes run fail: the call is answered with a
\* FunctionResponse carrying an {"error": ...} object, the remaining calls of
\* the turn are still executed, and the loop goes on to the next model call.
C16_ToolErrorsAreData ==
    /\ ~ret.ok => ret \in {NoResult, Err("Max turns reached"), Err("model down")}
    /\ \A n \in 1..ModelCalls(trace) :
          LET r == generate_content(self.model, n)
              calls == function_calls(r.parts)
          IN  (ToolCallsOnly(r) /\ (n < ModelCalls(trace) \/ turn >= n)) =>
                 /\ ExecutionsOfTurn(n) = Executions(calls)
                 /\ \A i \in DOMAIN calls :
                       history[2 * n + 2].parts[i] = FunctionResponse(calls[i], Answered[calls[i]])
                 /\ (n < max_turns /\ apc # "turn") => ModelCalls(trace) > n

C16_Witness ==
    /\ RunDone
    /\ generate_content(self.model, 1)
          = ModelOk(<<FunctionCall("missing"), FunctionCall("bad"), FunctionCall("t1")>>)
    /\ ExecutionsOfTurn(1) = <<ToolExecution("bad"), ToolExecution("t1")>>
    /\ history[4].parts = <<FunctionResponse("missing", Answered["missing"]),
                            FunctionResponse("bad", Answered["bad"]),
                            FunctionResponse("t1", Answered["t1"])>>
    /\ ModelCalls(trace) = 2
    /\ ret = Ok("hello")

\* The streaming run has returned.
StreamDone == method = "run_stream" /\ apc = "done"

\* C17: run_stream returns what run returns, the same text or the same error,
\* and makes the same model calls and tool executions in the same order, for
\* every sequence of model responses and tool results.
C17_StreamEqualsRun ==
    StreamDone =>
       /\ ret = plain.ret
       /\ trace = plain.trace

C17_Witness ==
    /\ StreamDone
    /\ generate_content(self.model, 1) = ModelOk(<<FunctionCall("t1"), Text("note")>>)
    /\ generate_content(self.model, 2) = ModelOk(<<Text("hello")>>)
    /\ plain.ret = Ok("note")
    /\ Len(plain.trace) = 1
    /\ ret = Ok("hello")
    /\ trace = <<ModelCall(InitialHistory(history[2].parts[1].text)), ToolExecution("t1"),
                 ModelCall(history)>>

\* The events in the channel: accepted and not yet taken.
Occupancy == Len(sent) - taken

\* C18: run_stream never blocks on sending an event: whatever the receiver
\* does, a send the method awaits completes, the event enqueued or dropped, so
\* a full channel that is not drained does not keep the loop from going on.
C18_SendNeverBlocks ==
    (method = "run_stream" /\ outbox # <<>>) => ENABLED Send

C18_Witness ==
    /\ method = "run_stream"
    /\ rx = "stalled"
    /\ Occupancy = ChannelCapacity
    /\ outbox # <<>>
    /\ apc \notin {"done", "idle"}
    /\ ret = NoResult
    /\ ~ENABLED LlmNext

(***************************************************************************)
(* GraphAgent's run_stream: the default method of the Agent trait.         *)
(***************************************************************************)
StreamGraphs == {GraphAgentNew(nodes) : nodes \in IsolationGraphs \cup {ChainNodes}}

StreamInit ==
    /\ AgentOff
    /\ ChannelNew("draining")
    /\ AuxOff
    /\ graph \in StreamGraphs
    /\ input = ""
    /\ state = empty
    /\ completed = {}
    /\ iteration = 0
    /\ ready = <<>>
    /\ ready_state = EmptyMap
    /\ pc = "idle"
    /\ result = NoResult
    /\ log = <<>>

\* Agent::run_stream after self.run(input) has returned: the Answer or the
\* Error event is to be sent.
RunStreamEvent ==
    /\ pc = "done"
    /\ outbox' = <<IF result.ok THEN Answer(result.text) ELSE Error(result.text)>>
    /\ pc' = "send"
    /\ UNCHANGED <<aux_vars, agent_vars, rx, sent, taken, graph, input, state, completed, iteration,
                   ready, ready_state, result, log>>

\* Agent::run_stream returns the result of run.
RunStreamReturn ==
    /\ pc = "send"
    /\ outbox = <<>>
    /\ pc' = "returned"
    /\ UNCHANGED <<aux_vars, agent_vars, chan_vars, graph, input, state, completed, iteration,
                   ready, ready_state, result, log>>

StreamNext ==
    \/ \E in \in Inputs : RunBegin(in)
    \/ IterationCap
    \/ NoneReady
    \/ SelectReady
    \/ ExecuteNodeOk
    \/ ExecuteNodeErr
    \/ Return
    \/ RunStreamEvent
    \/ Send
    \/ Receive
    \/ RunStreamReturn

StreamSpec == StreamInit /\ [][StreamNext]_vars

\* The event the streaming variant of a node's agent reports a failure with.
NodeError(entry) == Error(entry.text)

\* C19: in the streaming run of a graph the events of each node's agent are
\* forwarded to the caller's channel before the final Answer: when the run has
\* returned, the Error event of every node whose agent failed was sent, and the
\* Answer was sent after it.
C19_NodeEventsForwarded ==
    pc = "returned" =>
        /\ sent # <<>>
        /\ sent[Len(sent)] = Answer(result.text)
        /\ \A i \in DOMAIN log :
              ~log[i].ok => \E k \in 1..(Len(sent) - 1) : sent[k] = NodeError(log[i])

C19_Witness ==
    /\ pc = "returned"
    /\ \E i \in DOMAIN log : ~log[i].ok
    /\ sent = <<Answer(result.text)>>

(***************************************************************************)
(* ReActAgent::run as a state machine.                                     *)
(***************************************************************************)
MaxIterations == 3

\* serde_json::to_string_pretty: scalars as in the compact text, the members
\* of arrays and objects on lines of their own, indented by two spaces.
RECURSIVE Pretty(_, _)
Pretty(value, pad) ==
    CASE value.t = "Array" /\ value.m # <<>> ->
            "[\n" \o JoinStr([i \in DOMAIN value.m |->
                         pad \o "  " \o Pretty(value.m[i], pad \o "  ")], ",\n")
                  \o "\n" \o pad \o "]"
      [] value.t = "Object" /\ value.m # <<>> ->
            "{\n" \o JoinStr([i \in DOMAIN value.m |->
                         pad \o "  \"" \o value.m[i].k \o "\": "
                             \o Pretty(value.m[i].v, pad \o "  ")], ",\n")
                  \o "\n" \o pad \o "}"
      [] OTHER -> to_string(value)

to_string_pretty(value) == Pretty(value, "")

\* The texts the model answers with, and str::trim on them.
ReactTexts ==
    {"Final Answer: 42", " final answer: done ", "Final answer: 42", " let me think ", "   ", ""}

trim(text) ==
    CASE text = " final answer: done " -> "final answer: done"
      [] text = " let me think " -> "let me think"
      [] text = "   " -> ""
      [] OTHER -> text

\* text_trimmed.to_lowercase().starts_with("final answer:")
starts_with_final_answer(text_trimmed) ==
    text_trimmed \in {"Final Answer: 42", "final answer: done", "Final answer: 42"}

\* strip_prefix of "Final Answer:", "final answer:" or "FINAL ANSWER:", the
\* whole text when none of the three is its prefix; then trim.
strip_final_answer(text_trimmed) ==
    CASE text_trimmed = "Final Answer: 42" -> "42"
      [] text_trimmed = "final answer: done" -> "done"
      [] OTHER -> text_trimmed

\* ReActStep.
StepThought(thought) == [step |-> "Thought", text |-> thought]
StepAction(tool) == [step |-> "Action", text |-> tool]
StepFinalAnswer(answer) == [step |-> "FinalAnswer", text |-> answer]

\* ReActAgent::parse_response: the first part that decides.
RECURSIVE parse_response(_)
parse_response(parts) ==
    IF parts = <<>> THEN StepThought("")
    ELSE LET part == Head(parts)
         IN  CASE part.p = "Thinking" -> StepThought(part.text)
               [] part.p = "FunctionCall" -> StepAction(part.name)
               [] part.p = "Text" /\ starts_with_final_answer(trim(part.text)) ->
                     StepFinalAnswer(strip_final_answer(trim(part.text)))
               [] part.p = "Text" /\ trim(part.text) # "" -> StepThought(trim(part.text))
               [] OTHER -> parse_response(Tail(parts))

\* ReActAgent::execute_tool: the first tool of that name; always Ok.
execute_tool(a, tool_name) ==
    IF \E i \in DOMAIN a.tools : a.tools[i].name = tool_name
    THEN LET i == CHOOSE i \in DOMAIN a.tools :
                     /\ a.tools[i].name = tool_name
                     /\ \A j \in DOMAIN a.tools : a.tools[j].name = tool_name => i <= j
         IN  IF a.tools[i].ok THEN to_string_pretty(a.tools[i].value)
             ELSE "Error: " \o a.tools[i].text
    ELSE "Error: Tool '" \o tool_name \o "' not found"

build_prompt_with_scratchpad(in, pad) ==
    IF pad = <<>> THEN in
    ELSE in \o "\n\n--- Previous Steps ---\n" \o JoinStr(pad, "\n")
            \o "\n\nContinue from where you left off."

ReActAgentNew(instruction, model, tools, limit) ==
    [LLMAgentNew(instruction, model, tools) EXCEPT !.max_iterations = limit]

ReactTools ==
    <<ToolOk("t1", JObject(<<Member("n", JNumber(1))>>)), ToolErr("bad", "boom"),
      ToolOk("t1", JString("late"))>>

ReactMenu ==
    {ModelOk(<<Text(t)>>) : t \in ReactTexts \ {""}}
    \cup {ModelOk(<<Text(""), Text("Final Answer: 42")>>),
          ModelOk(<<Thinking("hmm")>>),
          ModelOk(<<Thinking(""), Text("Final Answer: 42")>>),
          ModelOk(<<FunctionCall("t1")>>),
          ModelOk(<<FunctionCall("bad")>>),
          ModelOk(<<FunctionCall("missing"), Text("Final Answer: 42")>>),
          ModelOk(<<FunctionCall("t1"), Thinking("hmm")>>),
          ModelOk(<<Text(" let me think "), Text("Final Answer: 42")>>),
          ModelOk(<<>>),
          ModelErr("model down")}

ReActAgents ==
    {ReActAgentNew("think", ScriptedModel(rs, rest), ReactTools, limit) :
        rs \in SeqsUpTo(ReactMenu, MaxResponses), rest \in ReactMenu, limit \in 0..MaxIterations}

ReactInit ==
    /\ GraphOff
    /\ ChannelNew("draining")
    /\ AuxOff
    /\ self \in ReActAgents
    /\ method = ""
    /\ apc = "idle"
    /\ turn = 0
    /\ history = <<>>
    /\ resp = ModelErr("")
    /\ pending = <<>>
    /\ function_responses = <<>>
    /\ scratchpad = <<>>
    /\ trace = <<>>
    /\ ret = NoResult
    /\ plain = NoPlain

\* run is called.
ReactRun(in) ==
    /\ apc = "idle"
    /\ method' = "run"
    /\ input' = in
    /\ scratchpad' = <<>>
    /\ turn' = 0
    /\ apc' = "turn"
    /\ UNCHANGED <<aux_vars, graph, state, completed, iteration, ready, ready_state, pc, result, log,
                   chan_vars, self, history, resp, pending, function_responses, trace, ret,
                   plain>>

\* ReactMaxIterations that reports the reached cap as an error.
ReactMaxIterations_err ==
    /\ apc = "turn"
    /\ turn >= self.max_iterations
    /\ ret' = Err("Max iterations reached")
    /\ apc' = "done"
    /\ UNCHANGED <<aux_vars, graph_vars, chan_vars, self, method, turn, history, resp, pending,
                   function_responses, scratchpad, trace, plain>>

\* The for loop is over: the summary of the scratchpad is returned.
ReactMaxIterations ==
    /\ apc = "turn"
    /\ turn >= self.max_iterations
    /\ ret' = Ok("Reached maximum iterations. Here's what I found:\n\n"
                 \o JoinStr(scratchpad, "\n"))
    /\ apc' = "done"
    /\ UNCHANGED <<aux_vars, graph_vars, chan_vars, self, method, turn, history, resp, pending,
                   function_responses, scratchpad, trace, plain>>

\* One iteration up to the tool call: the prompt, the model call, the step.
ReactStep ==
    /\ apc = "turn"
    /\ turn < self.max_iterations
    /\ LET current_prompt == build_prompt_with_scratchpad(input, scratchpad)
           h == <<Content("system", <<Text(self.instruction)>>),
                  Content("user", <<Text(current_prompt)>>)>>
           response == generate_content(self.model, turn + 1)
           step == parse_response(response.parts)
       IN  /\ history' = h
           /\ trace' = Append(trace, ModelCall(h))
           /\ resp' = response
           /\ IF ~response.ok
              THEN /\ ret' = Err(response.text)
                   /\ apc' = "done"
                   /\ UNCHANGED <<turn, scratchpad, pending>>
              ELSE CASE step.step = "Thought" ->
                          /\ scratchpad' = IF step.text # ""
                                           THEN Append(scratchpad, "Thought: " \o step.text)
                                           ELSE scratchpad
                          /\ turn' = turn + 1
                          /\ UNCHANGED <<apc, ret, pending>>
                     [] step.step = "Action" ->
                          /\ scratchpad' = Append(scratchpad, "Action: " \o step.text \o "({})")
                          /\ pending' = <<step.text>>
                          /\ apc' = "act"
                          /\ UNCHANGED <<turn, ret>>
                     [] step.step = "FinalAnswer" ->
                          /\ ret' = Ok(step.text)
                          /\ apc' = "done"
                          /\ UNCHANGED <<turn, scratchpad, pending>>
    /\ UNCHANGED <<aux_vars, graph_vars, chan_vars, self, method, function_responses, plain>>

\* The rest of an Action iteration that fails the run when the tool is
\* unknown or its execute fails.
ReactObserve_aborts ==
    /\ apc = "act"
    /\ LET tool == Head(pending)
           known == \E i \in DOMAIN self.tools : self.tools[i].name = tool
           failed == ~known \/ ~self.tools[CHOOSE i \in DOMAIN self.tools :
                                              self.tools[i].name = tool].ok
       IN  /\ trace' = IF known THEN Append(trace, ToolExecution(tool)) ELSE trace
           /\ IF failed
              THEN /\ ret' = Err(execute_tool(self, tool))
                   /\ apc' = "done"
                   /\ UNCHANGED <<scratchpad, turn>>
              ELSE /\ scratchpad' = Append(scratchpad, "Observation: " \o execute_tool(self, tool))
                   /\ turn' = turn + 1
                   /\ apc' = "turn"
                   /\ ret' = ret
    /\ pending' = <<>>
    /\ UNCHANGED <<aux_vars, graph_vars, chan_vars, self, method, history, resp, function_responses,
                   plain>>

\* The rest of an Action iteration: the tool is executed and observed.
ReactObserve ==
    /\ apc = "act"
    /\ LET tool == Head(pending)
       IN  /\ trace' = IF \E i \in DOMAIN self.tools : self.tools[i].name = tool
                       THEN Append(trace, ToolExecution(tool)) ELSE trace
           /\ scratchpad' = Append(scratchpad, "Observation: " \o execute_tool(self, tool))
    /\ pending' = <<>>
    /\ turn' = turn + 1
    /\ apc' = "turn"
    /\ UNCHANGED <<aux_vars, graph_vars, chan_vars, self, method, history, resp, function_responses,
                   ret, plain>>

ReactNext ==
    \/ \E in \in Inputs : ReactRun(in)
    \/ ReactMaxIterations
    \/ ReactStep
    \/ ReactObserve

ReactSpec == ReactInit /\ [][ReactNext]_vars

(***************************************************************************)
(* Properties of ReActAgent::run.                                          *)
(***************************************************************************)
\* The step the model's n-th response is classified as.
StepOfCall(n) == parse_response(generate_content(self.model, n).parts)

\* The n-th response is a content classified FinalAnswer.
AnswersAt(n) == generate_content(self.model, n).ok /\ StepOfCall(n).step = "FinalAnswer"

\* C20: run makes at most max_iterations model calls; it returns the answer as
\* soon as a step is classified FinalAnswer; when the cap is reached without
\* one it returns Ok with "Reached maximum iterations" and then the scratchpad
\* entries in the order they were appended.
C20_ReactBounded ==
    /\ ModelCalls(trace) <= self.max_iterations
    /\ \A n \in 1..(ModelCalls(trace) - 1) : ~AnswersAt(n)
    /\ (apc # "idle" /\ ModelCalls(trace) >= 1 /\ AnswersAt(ModelCalls(trace))) =>
           /\ apc = "done"
           /\ ret = Ok(StepOfCall(ModelCalls(trace)).text)
           /\ trace[Len(trace)].op = "generate_content"
    /\ (apc = "done" /\ ModelCalls(trace) = self.max_iterations
          /\ \A n \in 1..self.max_iterations :
                generate_content(self.model, n).ok /\ ~AnswersAt(n)) =>
           /\ ret.ok
           /\ ret.text = "Reached maximum iterations. Here's what I found:\n\n"
                            \o JoinStr(scratchpad, "\n")
           /\ \A i \in DOMAIN scratchpad : \E n \in 1..self.max_iterations :
                 \/ /\ StepOfCall(n).step = "Thought"
                    /\ scratchpad[i] = "Thought: " \o StepOfCall(n).text
                 \/ /\ StepOfCall(n).step = "Action"
                    /\ i < Len(scratchpad)
                    /\ scratchpad[i] = "Action: " \o StepOfCall(n).text \o "({})"
                    /\ scratchpad[i + 1] = "Observation: " \o execute_tool(self, StepOfCall(n).text)
                 \/ /\ StepOfCall(n).step = "Action"
                    /\ i > 1
                    /\ scratchpad[i - 1] = "Action: " \o StepOfCall(n).text \o "({})"
                    /\ scratchpad[i] = "Observation: " \o execute_tool(self, StepOfCall(n).text)

\* Three iterations, an action and two thoughts, no final answer: the summary.
C20_Witness ==
    /\ apc = "done"
    /\ self.max_iterations = 3
    /\ self.model = ScriptedModel(<<ModelOk(<<FunctionCall("t1")>>)>>, ModelOk(<<Thinking("hmm")>>))
    /\ ModelCalls(trace) = 3
    /\ ret = Ok("Reached maximum iterations. Here's what I found:\n\n"
                \o "Action: t1({})\nObservation: {\n  \"n\": 1\n}\nThought: hmm\nThought: hmm")

\* The parts of one kind, in the order of the response.
PartsOfKind(parts, kind) == SelectSeq(parts, LAMBDA part : part.p = kind)

\* What follows the prefix "final answer:", whatever its case, trimmed.
RestOfFinalAnswer(text_trimmed) ==
    CASE text_trimmed = "Final Answer: 42" -> "42"
      [] text_trimmed = "Final answer: 42" -> "42"
      [] text_trimmed = "final answer: done" -> "done"
      [] OTHER -> text_trimmed

\* The classification by precedence of part kinds: Thinking, then function
\* call, then a final-answer text, then any other non-empty text.
ByPrecedence(parts) ==
    LET thinking == PartsOfKind(parts, "Thinking")
        calls == PartsOfKind(parts, "FunctionCall")
        texts == SelectSeq(parts, LAMBDA part : part.p = "Text" /\ trim(part.text) # "")
        answers == SelectSeq(texts, LAMBDA part : starts_with_final_answer(trim(part.text)))
    IN  IF thinking # <<>> THEN StepThought(thinking[1].text)
        ELSE IF calls # <<>> THEN StepAction(calls[1].name)
        ELSE IF answers # <<>> THEN StepFinalAnswer(RestOfFinalAnswer(trim(answers[1].text)))
        ELSE IF texts # <<>> THEN StepThought(trim(texts[1].text))
        ELSE StepThought("")

\* C21: a response is classified by the precedence of its part kinds, whatever
\* the position of the parts: any Thinking part makes it a Thought, otherwise
\* any function call an Action, otherwise the first non-empty text that starts
\* with "final answer:" a FinalAnswer of the rest, otherwise any non-empty text
\* a Thought, otherwise an empty Thought.
C21_ClassifiedByPrecedence ==
    (ModelCalls(trace) >= 1 /\ resp.ok) =>
        /\ parse_response(resp.parts) = ByPrecedence(resp.parts)
        /\ apc = "act" <=> ByPrecedence(resp.parts).step = "Action" /\ pending # <<>>
        /\ (apc = "done" /\ turn < self.max_iterations) =>
               ret = Ok(ByPrecedence(resp.parts).text)

\* A function call before a Thinking part: the step taken is the Action.
C21_Witness ==
    /\ apc = "act"
    /\ resp = ModelOk(<<FunctionCall("t1"), Thinking("hmm")>>)
    /\ ByPrecedence(resp.parts) = StepThought("hmm")
    /\ pending = <<"t1">>
    /\ scratchpad = <<"Action: t1({})">>

(***************************************************************************)
(* McpServiceManager::get_or_create_service under concurrent callers.      *)
(***************************************************************************)
MaxCallers == 2

Callers == 1..MaxCallers
ConfigNames == {"fs", "git"}

\* No graph and no agent is under run.
AllOff ==
    /\ GraphOff
    /\ AgentOff
    /\ ChannelNew("draining")

\* A caller: the config name of its call, its position in the method, the
\* service it created and what the method returned to it.  Services are
\* numbered by the child process they own: the n-th one spawned is n.
Caller(position, name, service, returned) ==
    [pc |-> position, name |-> name, service |-> service, ok |-> returned # 0,
     returned |-> returned]

McpInit ==
    /\ AllOff
    /\ services = <<>>
    /\ spawned = <<>>
    /\ registry = <<>>
    /\ task = [t \in Callers |-> Caller("idle", "", 0, 0)]
    /\ arg = <<>>
    /\ out = <<>>

\* A caller calls get_or_create_service(config).
McpCall(t, name) ==
    /\ task[t].pc = "idle"
    /\ task' = [task EXCEPT ![t] = Caller("check", name, 0, 0)]
    /\ UNCHANGED <<graph_vars, agent_vars, chan_vars, services, spawned, registry, arg, out>>

\* The block under the read lock: an existing entry is returned.
McpCheck(t) ==
    /\ task[t].pc = "check"
    /\ task' = [task EXCEPT ![t] =
                  IF task[t].name \in DOMAIN services
                  THEN Caller("done", task[t].name, 0, services[task[t].name])
                  ELSE Caller("create", task[t].name, 0, 0)]
    /\ UNCHANGED <<graph_vars, agent_vars, chan_vars, services, spawned, registry, arg, out>>

\* create_mcp_service(..).await: the child process is spawned.
McpCreate(t) ==
    /\ task[t].pc = "create"
    /\ spawned' = Append(spawned, task[t].name)
    /\ task' = [task EXCEPT ![t] = Caller("store", task[t].name, Len(spawned) + 1, 0)]
    /\ UNCHANGED <<graph_vars, agent_vars, chan_vars, services, registry, arg, out>>

\* create_mcp_service(..).await? fails: the error is returned.
McpCreateFails(t) ==
    /\ task[t].pc = "create"
    /\ task' = [task EXCEPT ![t] = Caller("failed", task[t].name, 0, 0)]
    /\ UNCHANGED <<graph_vars, agent_vars, chan_vars, services, spawned, registry, arg, out>>

\* The block under the write lock: the service is inserted, then returned.
McpStore(t) ==
    /\ task[t].pc = "store"
    /\ services' = Put(services, task[t].name, task[t].service)
    /\ task' = [task EXCEPT ![t] =
                  Caller("done", task[t].name, task[t].service, task[t].service)]
    /\ UNCHANGED <<graph_vars, agent_vars, chan_vars, spawned, registry, arg, out>>

McpNext ==
    \/ \E t \in Callers, name \in ConfigNames : McpCall(t, name)
    \/ \E t \in Callers : McpCheck(t)
    \/ \E t \in Callers : McpCreate(t)
    \/ \E t \in Callers : McpCreateFails(t)
    \/ \E t \in Callers : McpStore(t)

McpSpec == McpInit /\ [][McpNext]_vars

\* The child processes spawned for a config name.
SpawnedFor(name) == {i \in DOMAIN spawned : spawned[i] = name}

\* C22: under any interleaving of get_or_create_service calls with one config
\* name, exactly one child process is spawned for the name and every caller
\* is returned the same service; a call made when the entry exists returns
\* that entry without spawning.
C22_SingleFlight ==
    /\ \A name \in ConfigNames : Cardinality(SpawnedFor(name)) <= 1
    /\ \A t, u \in Callers :
          (task[t].pc = "done" /\ task[u].pc = "done" /\ task[t].name = task[u].name) =>
              task[t].returned = task[u].returned
    /\ \A t \in Callers :
          task[t].pc = "done" => Cardinality(SpawnedFor(task[t].name)) = 1

C22_Witness ==
    /\ task[1] = Caller("done", "fs", 1, 1)
    /\ task[2] = Caller("done", "fs", 2, 2)
    /\ spawned = <<"fs", "fs">>
    /\ services["fs"] = 1

(***************************************************************************)
(* ToolRegistry::register and ToolRegistry::get under concurrent tasks.    *)
(***************************************************************************)
MaxOps == 3

ToolNames == {"search", "calc"}
\* The first task holds the registry, every other task a clone of it.
Handle(t) == IF t = 1 THEN "registry" ELSE "clone"

\* Option<Arc<dyn Tool>>: tools are numbered in the order they were created;
\* NoTool is None.  HalfInserted is an entry whose insert is under way.
NoTool == 0
HalfInserted == -1

\* The shared Arc<RwLock<HashMap>>: the map, the lock's holders, the number
\* of tools created and of calls made so far.
Registry(map, writer, readers, created, calls) ==
    [map |-> map, writer |-> writer, readers |-> readers, created |-> created,
     calls |-> calls]

\* A task: its position, the name and the tool of its call, the handle it
\* calls through, how many registrations had taken effect when its get read
\* the map, and what get returned.
Task(position, name, tool, via, at, returned) ==
    [pc |-> position, name |-> name, tool |-> tool, via |-> via, at |-> at,
     returned |-> returned]

RegistryInit ==
    /\ AllOff
    /\ services = <<>>
    /\ spawned = <<>>
    /\ registry = Registry(<<>>, 0, {}, 0, 0)
    /\ task = [t \in Callers |-> Task("idle", "", NoTool, Handle(t), 0, NoTool)]
    /\ arg = <<>>
    /\ out = <<>>

\* A task calls register(tool) through the registry or a clone of it.
Register(t, name) ==
    /\ task[t].pc \in {"idle", "registered", "got"}
    /\ registry.calls < MaxOps
    /\ registry' = [registry EXCEPT !.created = @ + 1, !.calls = @ + 1]
    /\ task' = [task EXCEPT ![t] =
                  Task("write", name, registry.created + 1, Handle(t), 0, NoTool)]
    /\ UNCHANGED <<graph_vars, agent_vars, chan_vars, services, spawned, arg, out>>

\* self.tools.write().await: granted when nobody holds the lock.
WriteLock(t) ==
    /\ task[t].pc = "write"
    /\ registry.writer = 0
    /\ registry.readers = {}
    /\ registry' = [registry EXCEPT !.writer = t]
    /\ task' = [task EXCEPT ![t].pc = "insert"]
    /\ UNCHANGED <<graph_vars, agent_vars, chan_vars, services, spawned, arg, out>>

\* HashMap::insert begins: the entry is being written.
InsertBegin(t) ==
    /\ task[t].pc = "insert"
    /\ registry' = [registry EXCEPT !.map = Put(@, task[t].name, HalfInserted)]
    /\ task' = [task EXCEPT ![t].pc = "inserting"]
    /\ UNCHANGED <<graph_vars, agent_vars, chan_vars, services, spawned, arg, out>>

\* HashMap::insert ends, register returns and the guard is dropped.
InsertEnd(t) ==
    /\ task[t].pc = "inserting"
    /\ registry' = [registry EXCEPT !.map = Put(@, task[t].name, task[t].tool),
                                     !.writer = 0]
    /\ out' = Append(out, [name |-> task[t].name, tool |-> task[t].tool])
    /\ task' = [task EXCEPT ![t].pc = "registered"]
    /\ UNCHANGED <<graph_vars, agent_vars, chan_vars, services, spawned, arg>>

\* A task calls get(name) through the registry or a clone of it.
Get(t, name) ==
    /\ task[t].pc \in {"idle", "registered", "got"}
    /\ registry.calls < MaxOps
    /\ registry' = [registry EXCEPT !.calls = @ + 1]
    /\ task' = [task EXCEPT ![t] = Task("read", name, NoTool, Handle(t), 0, NoTool)]
    /\ UNCHANGED <<graph_vars, agent_vars, chan_vars, services, spawned, arg, out>>

\* ReadLock that is granted while a writer holds the lock.
ReadLock_unguarded(t) ==
    /\ task[t].pc = "read"
    /\ registry' = [registry EXCEPT !.readers = @ \cup {t}]
    /\ task' = [task EXCEPT ![t].pc = "reading"]
    /\ UNCHANGED <<graph_vars, agent_vars, chan_vars, services, spawned, arg, out>>

\* self.tools.read().await: granted when no writer holds the lock.
ReadLock(t) ==
    /\ task[t].pc = "read"
    /\ registry.writer = 0
    /\ registry' = [registry EXCEPT !.readers = @ \cup {t}]
    /\ task' = [task EXCEPT ![t].pc = "reading"]
    /\ UNCHANGED <<graph_vars, agent_vars, chan_vars, services, spawned, arg, out>>

\* tools.get(name).cloned(), get returns and the guard is dropped.
Read(t) ==
    /\ task[t].pc = "reading"
    /\ registry' = [registry EXCEPT !.readers = @ \ {t}]
    /\ task' = [task EXCEPT ![t].pc = "got",
                             ![t].at = Len(out),
                             ![t].returned = IF task[t].name \in DOMAIN registry.map
                                             THEN registry.map[task[t].name] ELSE NoTool]
    /\ UNCHANGED <<graph_vars, agent_vars, chan_vars, services, spawned, arg, out>>

RegistryNext ==
    \/ \E t \in Callers, name \in ToolNames : Register(t, name)
    \/ \E t \in Callers : WriteLock(t)
    \/ \E t \in Callers : InsertBegin(t)
    \/ \E t \in Callers : InsertEnd(t)
    \/ \E t \in Callers, name \in ToolNames : Get(t, name)
    \/ \E t \in Callers : ReadLock(t)
    \/ \E t \in Callers : Read(t)

RegistrySpec == RegistryInit /\ [][RegistryNext]_vars

\* The tool of the last of the first n registrations that is for the name.
RECURSIVE LastRegistered(_, _)
LastRegistered(n, name) ==
    IF n = 0 THEN NoTool
    ELSE IF out[n].name = name THEN out[n].tool
    ELSE LastRegistered(n - 1, name)

\* C23: register and get are atomic with respect to each other, also through
\* clones: get returns nothing only if no registration for the name has taken
\* effect, never an entry half inserted, and after registrations under one
\* name the tool whose registration took effect last.
C23_RegistryAtomic ==
    \A t \in Callers :
        task[t].pc = "got" =>
            /\ task[t].returned # HalfInserted
            /\ task[t].returned = LastRegistered(task[t].at, task[t].name)
            /\ task[t].returned = NoTool <=>
                   \A i \in 1..task[t].at : out[i].name # task[t].name

\* Two registrations under one name through the clone; get through the
\* registry returns the second tool.
C23_Witness ==
    /\ out = <<[name |-> "search", tool |-> 1], [name |-> "search", tool |-> 2]>>
    /\ task[2].pc = "registered" /\ task[2].via = "clone" /\ task[2].tool = 2
    /\ task[1].pc = "got" /\ task[1].via = "registry" /\ task[1].name = "search"
    /\ task[1].at = 2
    /\ task[1].returned = 2

(***************************************************************************)
(* WorkflowState::new and WorkflowState::update on a declared schema.      *)
(***************************************************************************)
MaxWrites == 3

\* StateFieldDef: the reducer as the schema spells it and Option<Value>.
NoDefault == [some |-> FALSE, v |-> JNull]
Default(value) == [some |-> TRUE, v |-> value]
StateFieldDef(reducer, default) == [reducer |-> reducer, default |-> default]

\* ReducerType, deserialized from its lowercase name.
ReducerType(name) ==
    CASE name = "overwrite" -> "Overwrite"
      [] name = "append" -> "Append"
      [] name = "max" -> "Max"
      [] name = "min" -> "Min"
      [] name = "merge" -> "Merge"

\* WorkflowState::new: a field is present from the start only if it has a
\* default; every declared field gets its reducer.
WorkflowState_new(schema) ==
    [fields |-> [x \in {k \in DOMAIN schema.fields : schema.fields[k].default.some} |->
                    schema.fields[x].default.v],
     reducers |-> [x \in DOMAIN schema.fields |-> ReducerType(schema.fields[x].reducer)]]

\* The schemas of the model: findings is declared append, without a default,
\* with an array default or with a default that is no array.
FindingsDefaults ==
    {NoDefault, Default(JArray(<<>>)), Default(JArray(<<JString("seed")>>)),
     Default(JString("seed"))}
StoreSchemas ==
    {Schema("findings" :> StateFieldDef("append", d)) : d \in FindingsDefaults}

\* The keys and the values written: note is not declared.
StoreKeys == {"findings", "note"}
StoreValues ==
    {JString("x"), JNumber(1), JNull, JArray(<<>>),
     JArray(<<JString("y"), JNumber(2)>>), JArray(<<JArray(<<JString("z")>>)>>)}

StoreInit ==
    /\ graph = GraphAgentNew(<<>>)
    /\ input = ""
    /\ \E schema \in StoreSchemas :
          /\ state = WorkflowState_new(schema)
          /\ arg = schema
    /\ completed = {}
    /\ iteration = 0
    /\ ready = <<>>
    /\ ready_state = EmptyMap
    /\ pc = "off"
    /\ result = NoResult
    /\ log = <<>>
    /\ AgentOff
    /\ ChannelNew("draining")
    /\ services = <<>>
    /\ spawned = <<>>
    /\ registry = <<>>
    /\ task = <<>>
    /\ out = <<>>

\* state.update(key, value); out keeps the writes in their order.
Update(key, value) ==
    /\ pc = "off"
    /\ Len(out) < MaxWrites
    /\ state' = update(state, key, value)
    /\ out' = Append(out, [key |-> key, value |-> value])
    /\ UNCHANGED <<agent_vars, chan_vars, graph, input, completed, iteration, ready,
                   ready_state, pc, result, log, services, spawned, registry, task, arg>>

StoreNext == \E key \in StoreKeys, value \in StoreValues : Update(key, value)

StoreSpec == StoreInit /\ [][StoreNext]_vars

\* What the writes to a key contribute, in their order: an array its
\* elements, any other value itself.
RECURSIVE Contributions(_, _)
Contributions(writes, key) ==
    IF writes = <<>> THEN <<>>
    ELSE LET w == Head(writes)
             rest == Contributions(Tail(writes), key)
         IN  IF w.key # key THEN rest
             ELSE IF w.value.t = "Array" THEN w.value.m \o rest
             ELSE <<w.value>> \o rest

WritesTo(key) == SelectSeq(out, LAMBDA w : w.key = key)

\* The array the appends start from: the default, the empty array when the
\* field was absent.
StartOf(key) ==
    IF arg.fields[key].default.some THEN arg.fields[key].default.v ELSE JArray(<<>>)

\* C24: for a field declared append, writing v1, v2, ... in that order yields
\* the array of their concatenation in that order, an array value
\* contributing its elements and any other value itself as one element,
\* starting from the empty array when the field was absent (and from the
\* array the field held otherwise).
C24_AppendConcatenates ==
    (StartOf("findings").t = "Array" /\ WritesTo("findings") # <<>>) =>
        /\ HasKey(state, "findings")
        /\ get(state, "findings") =
              JArray(StartOf("findings").m \o Contributions(out, "findings"))

\* Absent field; a scalar, an array of two and a scalar written in turn.
C24_Witness ==
    /\ ~arg.fields["findings"].default.some
    /\ out = <<[key |-> "findings", value |-> JString("x")],
               [key |-> "findings", value |-> JArray(<<JString("y"), JNumber(2)>>)],
               [key |-> "findings", value |-> JNumber(1)]>>
    /\ get(state, "findings") =
          JArray(<<JString("x"), JString("y"), JNumber(2), JNumber(1)>>)

(***************************************************************************)
(* condition::parse and condition::evaluate on a state, as condition_met   *)
(* calls them.                                                             *)
(***************************************************************************)
MaxEvals == 1

\* The states conditions are evaluated on: result is absent, null, a
\* string, a number, a boolean, an object or an array.
CondValues ==
    {JNull, JString("x"), JNumber(1), JBool(TRUE),
     JObject(<<Member("a", JString("x"))>>), JArray(<<JString("x")>>)}
CondStates ==
    {empty} \cup {update(empty, "result", v) : v \in CondValues}

\* The condition strings: a path, an operator and a literal, and a string
\* with no operator.
CondPaths == {<<"result">>, <<"result", "a">>, <<"missing">>}
CondLiterals ==
    {Kw("null"), Quoted("x"), Quoted("y"), Numeral(1), Numeral(2), Kw("true"), Kw("false")}
CondOps == {"==", "!=", ">"}
Conditions ==
    {<<Word(path), Kw(op), lit>> : <<path, op, lit>> \in CondPaths \X CondOps \X CondLiterals}
        \cup {<<Kw("result"), Kw("is"), Quoted("x")>>}

CondInit ==
    /\ graph = GraphAgentNew(<<>>)
    /\ input = ""
    /\ state \in CondStates
    /\ completed = {}
    /\ iteration = 0
    /\ ready = <<>>
    /\ ready_state = EmptyMap
    /\ pc = "off"
    /\ result = NoResult
    /\ log = <<>>
    /\ AgentOff
    /\ ChannelNew("draining")
    /\ services = <<>>
    /\ spawned = <<>>
    /\ registry = <<>>
    /\ task = <<>>
    /\ arg = <<>>
    /\ out = <<>>

Evaluation(toks, parsed, value) == [toks |-> toks, parsed |-> parsed, value |-> value]

\* parse gives Ok(expr): the condition is evaluate(expr, state).
Evaluate(toks) ==
    /\ pc = "off"
    /\ Len(out) < MaxEvals
    /\ parse(toks).ok
    /\ out' = Append(out, Evaluation(toks, parse(toks), evaluate(parse(toks).expr, state)))
    /\ UNCHANGED <<agent_vars, chan_vars, graph, input, state, completed, iteration, ready,
                   ready_state, pc, result, log, services, spawned, registry, task, arg>>

\* parse gives Err: the condition is false.
ParseFails(toks) ==
    /\ pc = "off"
    /\ Len(out) < MaxEvals
    /\ ~parse(toks).ok
    /\ out' = Append(out, Evaluation(toks, ParseErr, FALSE))
    /\ UNCHANGED <<agent_vars, chan_vars, graph, input, state, completed, iteration, ready,
                   ready_state, pc, result, log, services, spawned, registry, task, arg>>

CondNext ==
    \/ \E toks \in Conditions : Evaluate(toks)
    \/ \E toks \in Conditions : ParseFails(toks)

CondSpec == CondInit /\ [][CondNext]_vars

\* The JSON value a literal denotes.
LiteralValue(lit) ==
    CASE lit.lt = "Null" -> JNull
      [] lit.lt = "String" -> JString(lit.s)
      [] lit.lt = "Number" -> JNumber(lit.n)
      [] lit.lt = "Boolean" -> JBool(lit.b)

\* The value at the path equals the literal; a missing path equals null only.
EqualsLiteral(st, path, lit) ==
    IF get_path(st, path).some
    THEN get_path(st, path).v = LiteralValue(lit)
    ELSE lit.lt = "Null"

\* C25: `path == literal` is true iff the state value at the path equals the
\* literal, a missing path being equal to null and to nothing else, and
\* `path != literal` is the negation of `path == literal`.
C25_EqualityAndMissing ==
    \A i \in DOMAIN out :
        LET expr == out[i].parsed.expr
        IN  (out[i].parsed.ok /\ expr.e = "Compare" /\ expr.op \in {"==", "!="}) =>
                /\ expr.op = "==" => (out[i].value <=> EqualsLiteral(state, expr.left, expr.right))
                /\ expr.op = "!=" => (out[i].value <=> ~EqualsLiteral(state, expr.left, expr.right))
                /\ evaluate(Compare(expr.left, "!=", expr.right), state)
                      <=> ~evaluate(Compare(expr.left, "==", expr.right), state)

\* A missing path satisfies != 'x'.
C25_Witness ==
    /\ ~HasKey(state, "missing")
    /\ out = <<Evaluation(<<Kw("missing"), Kw("!="), Quoted("x")>>,
                          ParseOk(Compare(<<"missing">>, "!=", LitString("x"))), TRUE)>>

\* Some node of the graph has a `when` that does not parse.
HasUnparsableWhen ==
    \E id \in DOMAIN graph.nodes :
        graph.nodes[id].when.some /\ ~parse(graph.nodes[id].when.toks).ok

\* C26: evaluating readiness changes nothing: the step of the loop that
\* computes the ready set, and with it evaluates the conditions, leaves the
\* workflow state and the completed set as they were, for every graph and
\* state, a `when` that fails to parse included.
C26_ReadinessFrame ==
    [][pc = "loop" => (state' = state /\ completed' = completed)]_vars

\* The ready set was computed a second time, on a state a node has written
\* to, in a graph with a `when` that does not parse.
C26_Witness ==
    /\ pc = "exec"
    /\ iteration = 2
    /\ ready # <<>>
    /\ completed # {}
    /\ state.fields # EmptyMap
    /\ HasUnparsableWhen

(***************************************************************************)
(* normalize_to_graph on a workflow definition as the loader gives it.     *)
(***************************************************************************)
NoAgentDefinition == [some |-> FALSE, def |-> MockAgent("")]
AgentDefinition(def) == [some |-> TRUE, def |-> def]
NoCompositeWorkflow == [some |-> FALSE, execution |-> "", agents |-> <<>>]
CompositeWorkflowDefinition(execution, agents) ==
    [some |-> TRUE, execution |-> execution, agents |-> agents]
WorkflowDefinition(kind, agent, workflow, graph_def) ==
    [kind |-> kind, agent |-> agent, workflow |-> workflow, graph |-> graph_def]

\* Result<GraphWorkflowDef, Box<dyn Error>>.
GraphWorkflowDef(nodes) == [ok |-> TRUE, error |-> "", state |-> NoSchema, nodes |-> nodes]
NormalizeErr(message) == [ok |-> FALSE, error |-> message, state |-> NoSchema, nodes |-> <<>>]

\* normalize_direct that makes a graph without nodes of a missing agent.
normalize_direct_lenient(def) ==
    IF ~def.agent.some THEN GraphWorkflowDef(<<>>)
    ELSE GraphWorkflowDef(
            <<NodeDefinition("main", def.agent.def, DependsOnNone, NoWhen, NoOutputsDef, "All")>>)

normalize_direct(def) ==
    IF ~def.agent.some THEN NormalizeErr("Direct workflow missing agent definition")
    ELSE GraphWorkflowDef(
            <<NodeDefinition("main", def.agent.def, DependsOnNone, NoWhen, NoOutputsDef, "All")>>)

normalize_to_graph(def) ==
    CASE def.kind = "Direct" -> normalize_direct(def)
      [] def.kind = "Composite" ->
            IF ~def.workflow.some
            THEN NormalizeErr("Composite workflow missing workflow definition")
            ELSE LET r == normalize_composite(def.workflow.execution, def.workflow.agents)
                 IN  IF r.ok THEN GraphWorkflowDef(r.nodes)
                     ELSE NormalizeErr("Unknown execution mode: " \o def.workflow.execution)
      [] def.kind = "Graph" ->
            IF normalize_graph(def).ok THEN GraphWorkflowDef(normalize_graph(def).nodes)
            ELSE NormalizeErr("Graph workflow missing graph definition")
      [] OTHER -> NormalizeErr("Unknown workflow kind: " \o def.kind)

\* The definitions of the model: every kind with every presence of agent,
\* workflow and graph.
NormAgents == {MockAgent("42"), TransformAgent("-A")}
NormWorkflows ==
    {NoCompositeWorkflow}
        \cup {CompositeWorkflowDefinition(execution, agents) :
                <<execution, agents>> \in
                    {"sequential", "parallel", "loop", "unknown"} \X SeqsUpTo(NormAgents, MaxSteps)}
NormGraphs ==
    {NoGraphDefinition,
     GraphDefinition(NoSchema, <<>>),
     GraphDefinition(NoSchema,
        <<GraphNodeDefinition("b", MockAgent("42"), DependsOnSingle("a"), NoWhen, NoOutputsDef, "any"),
          GraphNodeDefinition("a", TransformAgent("-A"), DependsOnNone, NoWhen, NoOutputsDef, "")>>)}
WorkflowDefinitions ==
    {WorkflowDefinition(kind, agent, workflow, graph_def) :
        <<kind, agent, workflow, graph_def>> \in
            {"Direct", "Composite", "Graph", "Unknown"}
                \X {NoAgentDefinition, AgentDefinition(MockAgent("42"))}
                \X NormWorkflows \X NormGraphs}

NormInit ==
    /\ graph = GraphAgentNew(<<>>)
    /\ input = ""
    /\ state = empty
    /\ completed = {}
    /\ iteration = 0
    /\ ready = <<>>
    /\ ready_state = EmptyMap
    /\ pc = "off"
    /\ result = NoResult
    /\ log = <<>>
    /\ AgentOff
    /\ ChannelNew("draining")
    /\ services = <<>>
    /\ spawned = <<>>
    /\ registry = <<>>
    /\ task = <<>>
    /\ arg \in WorkflowDefinitions
    /\ out = <<>>

\* normalize_to_graph(&def) returns Ok(graph).
NormalizeOk ==
    /\ pc = "off"
    /\ out = <<>>
    /\ normalize_to_graph(arg).ok
    /\ out' = <<normalize_to_graph(arg)>>
    /\ UNCHANGED <<agent_vars, chan_vars, graph_vars, services, spawned, registry, task, arg>>

\* normalize_to_graph(&def) returns Err.
NormalizeFails ==
    /\ pc = "off"
    /\ out = <<>>
    /\ ~normalize_to_graph(arg).ok
    /\ out' = <<normalize_to_graph(arg)>>
    /\ UNCHANGED <<agent_vars, chan_vars, graph_vars, services, spawned, registry, task, arg>>

NormNext == NormalizeOk \/ NormalizeFails

NormSpec == NormInit /\ [][NormNext]_vars

\* The error cases the statement lists.
ListedError(def) ==
    \/ def.kind = "Direct" /\ ~def.agent.some
    \/ def.kind = "Composite" /\ ~def.workflow.some
    \/ def.kind \notin {"Direct", "Composite", "Graph"}
    \/ /\ def.kind = "Composite"
       /\ def.workflow.some
       /\ def.workflow.execution \notin {"sequential", "parallel", "loop"}

\* One node per declared agent or source node, in declaration order.
NodePerSource(def, nodes) ==
    CASE def.kind = "Direct" ->
            Len(nodes) = 1 /\ nodes[1].agent = def.agent.def
      [] def.kind = "Composite" ->
            /\ Len(nodes) = Len(def.workflow.agents)
            /\ \A i \in DOMAIN nodes : nodes[i].agent = def.workflow.agents[i]
      [] def.kind = "Graph" ->
            /\ Len(nodes) = Len(def.graph.nodes)
            /\ \A i \in DOMAIN nodes :
                  /\ nodes[i].id = def.graph.nodes[i].id
                  /\ nodes[i].agent = def.graph.nodes[i].agent
      [] OTHER -> FALSE

\* C27 as stated: normalize_to_graph returns an error and no graph for
\* Direct with no agent, Composite with no workflow, an unknown kind or a
\* Composite with an unknown execution; in every other case it returns a
\* graph with one node per declared agent or source node, in declaration
\* order.
C27_AsStated ==
    out # <<>> =>
        IF ListedError(arg) THEN ~out[1].ok /\ out[1].nodes = <<>>
        ELSE out[1].ok /\ NodePerSource(arg, out[1].nodes)

\* C27: normalize_to_graph returns an error and no graph for Direct with no
\* agent, Composite with no workflow, Graph with no graph definition, an
\* unknown kind or a Composite with an unknown execution (also with an empty
\* agents list); in every other case it returns a graph with one node per
\* declared agent or source node, in declaration order.
C27_NormalizeErrors ==
    out # <<>> =>
        IF ListedError(arg) \/ (arg.kind = "Graph" /\ ~arg.graph.some)
        THEN ~out[1].ok /\ out[1].nodes = <<>>
        ELSE out[1].ok /\ NodePerSource(arg, out[1].nodes)

\* A Composite with an unknown execution and no agents is refused.
C27_Witness ==
    /\ arg.kind = "Composite"
    /\ arg.workflow = CompositeWorkflowDefinition("unknown", <<>>)
    /\ out = <<NormalizeErr("Unknown execution mode: unknown")>>

(***************************************************************************)
(* A Composite definition run: Builder::build_from_def makes a             *)
(* SequentialAgent, ParallelAgent or LoopAgent of it and the agent is run; *)
(* or the definition is normalized, compiled and run as a GraphAgent.      *)
(***************************************************************************)
SequentialAgent(sub_agents) == [kind |-> "Sequential", sub_agents |-> sub_agents, n |-> 0]
ParallelAgent(sub_agents) == [kind |-> "Parallel", sub_agents |-> sub_agents, n |-> 0]
LoopAgent(agent, iterations) == [kind |-> "Loop", sub_agents |-> <<agent>>, n |-> iterations]

\* Result<Arc<dyn Agent>, _> of build_from_def.
Built(agent) == [ok |-> TRUE, error |-> "", agent |-> agent]
BuildErr(message) == [ok |-> FALSE, error |-> message, agent |-> SequentialAgent(<<>>)]

\* The Composite arm of build_from_def; max_iterations is an Option<u32>.
build_from_def(def) ==
    IF def.kind = "Composite"
    THEN IF def.workflow.some
         THEN CASE def.workflow.execution = "sequential" ->
                      Built(SequentialAgent(def.workflow.agents))
                [] def.workflow.execution = "parallel" ->
                      Built(ParallelAgent(def.workflow.agents))
                [] def.workflow.execution = "loop" ->
                      IF Len(def.workflow.agents) # 1
                      THEN BuildErr("Loop workflow must have exactly one agent")
                      ELSE Built(LoopAgent(def.workflow.agents[1],
                                           IF def.max_iterations.some
                                           THEN def.max_iterations.n ELSE 1))
                [] OTHER -> BuildErr("Unknown execution mode: " \o def.workflow.execution)
         ELSE BuildErr("Composite workflow missing workflow definition")
    ELSE BuildErr("Unknown workflow kind: " \o def.kind)

\* ParallelAgent::run: every agent on the input; the handles are awaited in
\* list order, the first error returned, the results joined.
ParallelResults(sub_agents, in) == [i \in DOMAIN sub_agents |-> AgentRun(sub_agents[i], in)]

\* ParallelAgent::run that returns the input when there is nothing to join.
ParallelRun_input(sub_agents, in) ==
    LET results == ParallelResults(sub_agents, in)
        failed == {i \in DOMAIN results : ~results[i].ok}
    IN  IF failed # {}
        THEN results[CHOOSE i \in failed : \A j \in failed : i <= j]
        ELSE IF results = <<>> THEN Ok(in)
        ELSE Ok(JoinStr([i \in DOMAIN results |-> results[i].text], "\n---\n"))

ParallelRun(sub_agents, in) ==
    LET results == ParallelResults(sub_agents, in)
        failed == {i \in DOMAIN results : ~results[i].ok}
    IN  IF failed # {}
        THEN results[CHOOSE i \in failed : \A j \in failed : i <= j]
        ELSE Ok(JoinStr([i \in DOMAIN results |-> results[i].text], "\n---\n"))

\* LoopAgent::run: the agent max_iterations times, each on the previous output.
RECURSIVE LoopRun(_, _, _)
LoopRun(agent, iterations, current_input) ==
    IF iterations = 0 THEN Ok(current_input)
    ELSE LET r == AgentRun(agent, current_input)
         IN  IF r.ok THEN LoopRun(agent, iterations - 1, r.text) ELSE r

\* The Composite definitions of the model and the two ways to run one.
NoMaxIterations == [some |-> FALSE, n |-> 0]
SomeMaxIterations(n) == [some |-> TRUE, n |-> n]
CompositeAgents == {TransformAgent("-A"), MockAgent("42"), FailingAgent("boom")}
CompositeDefinitions ==
    {[kind |-> "Composite", agent |-> NoAgentDefinition,
      workflow |-> CompositeWorkflowDefinition(execution, agents),
      graph |-> NoGraphDefinition, max_iterations |-> iterations] :
        <<execution, agents, iterations>> \in
            {"sequential", "parallel", "loop", "unknown"}
                \X SeqsUpTo(CompositeAgents, MaxSteps)
                \X {NoMaxIterations, SomeMaxIterations(0), SomeMaxIterations(2)}}
Paths == {"builder", "graph"}

Composite(path, position, built) == [path |-> path, pc |-> position, built |-> built]

CompositeInit ==
    /\ graph = GraphAgentNew(<<>>)
    /\ input = ""
    /\ state = empty
    /\ completed = {}
    /\ iteration = 0
    /\ ready = <<>>
    /\ ready_state = EmptyMap
    /\ pc = "off"
    /\ result = NoResult
    /\ log = <<>>
    /\ AgentOff
    /\ ChannelNew("draining")
    /\ services = <<>>
    /\ spawned = <<>>
    /\ registry = <<>>
    /\ \E path \in Paths : task = Composite(path, "new", BuildErr(""))
    /\ arg \in CompositeDefinitions
    /\ out = <<>>

\* build_from_def returns Ok(agent).
BuildAgent ==
    /\ task.path = "builder"
    /\ task.pc = "new"
    /\ build_from_def(arg).ok
    /\ task' = Composite("builder", "built", build_from_def(arg))
    /\ UNCHANGED <<agent_vars, chan_vars, graph_vars, services, spawned, registry, arg, out>>

\* build_from_def returns Err: there is no agent to run.
BuildFails ==
    /\ task.path = "builder"
    /\ task.pc = "new"
    /\ ~build_from_def(arg).ok
    /\ task' = Composite("builder", "failed", build_from_def(arg))
    /\ out' = <<Err(build_from_def(arg).error)>>
    /\ UNCHANGED <<agent_vars, chan_vars, graph_vars, services, spawned, registry, arg>>

\* agent.run(input) on the agent built.
RunBuilt(in) ==
    /\ task.path = "builder"
    /\ task.pc = "built"
    /\ input' = in
    /\ task' = [task EXCEPT !.pc = "done"]
    /\ out' = <<CASE task.built.agent.kind = "Sequential" ->
                        SequentialRun(task.built.agent.sub_agents, in)
                  [] task.built.agent.kind = "Parallel" ->
                        ParallelRun(task.built.agent.sub_agents, in)
                  [] task.built.agent.kind = "Loop" ->
                        LoopRun(task.built.agent.sub_agents[1], task.built.agent.n, in)>>
    /\ UNCHANGED <<agent_vars, chan_vars, graph, state, completed, iteration, ready,
                   ready_state, pc, result, log, services, spawned, registry, arg>>

\* The definition is normalized and compiled to a GraphAgent.
CompileComposite ==
    /\ task.path = "graph"
    /\ task.pc = "new"
    /\ normalize_to_graph(arg).ok
    /\ graph' = CompileGraph(normalize_to_graph(arg).nodes)
    /\ pc' = "idle"
    /\ task' = [task EXCEPT !.pc = "compiled"]
    /\ UNCHANGED <<agent_vars, chan_vars, input, state, completed, iteration, ready,
                   ready_state, result, log, services, spawned, registry, arg, out>>

CompositeNext ==
    \/ BuildAgent
    \/ BuildFails
    \/ \E in \in Inputs : RunBuilt(in)
    \/ CompileComposite
    \/ \E in \in Inputs : RunBegin(in)
    \/ NoneReady
    \/ SelectReady
    \/ ExecuteNodeOk
    \/ ExecuteNodeErr
    \/ Return

CompositeSpec == CompositeInit /\ [][CompositeNext]_vars

\* The composite has zero agents and one of the three execution modes.
EmptyComposite(execution) ==
    arg.workflow.execution = execution /\ arg.workflow.agents = <<>>

\* The definition has been dealt with: built and run, refused, or run as a graph.
CompositeEnded ==
    \/ task.path = "builder" /\ task.pc \in {"failed", "done"}
    \/ task.path = "graph" /\ pc = "done"

CompositeResult == IF task.path = "builder" THEN out[1] ELSE result

\* C28 as stated: running an empty composite on an input returns the input
\* for sequential execution and the empty string for parallel and for loop
\* execution.
C28_AsStated ==
    CompositeEnded =>
        /\ EmptyComposite("sequential") => CompositeResult = Ok(input)
        /\ EmptyComposite("parallel") => CompositeResult = Ok("")
        /\ EmptyComposite("loop") => CompositeResult = Ok("")

\* C28: an empty composite built by the Builder returns the input for
\* sequential execution and the empty string for parallel execution, and an
\* empty loop is refused by the Builder and never run; run as a GraphAgent,
\* the zero nodes of an empty composite give the empty string for every
\* execution.
C28_EmptyComposite ==
    /\ (task.path = "builder" /\ CompositeEnded) =>
          /\ EmptyComposite("sequential") => task.pc = "done" /\ out[1] = Ok(input)
          /\ EmptyComposite("parallel") => task.pc = "done" /\ out[1] = Ok("")
          /\ EmptyComposite("loop") =>
                /\ task.pc = "failed"
                /\ out[1] = Err("Loop workflow must have exactly one agent")
    /\ (task.path = "graph" /\ CompositeEnded) =>
          \A execution \in {"sequential", "parallel", "loop"} :
              EmptyComposite(execution) => result = Ok("")

\* The empty sequential composite, built and run on "x", has returned "x".
C28_Witness ==
    /\ task.path = "builder"
    /\ task.pc = "done"
    /\ EmptyComposite("sequential")
    /\ input = "x"
    /\ out = <<Ok("x")>>

\* The node's `when` is the string "intent is 'search'", which has no
\* operator of the condition language.
UnparsableWhen(id) == graph.nodes[id].when = When(Unparsable)

\* C29: a node whose `when` fails to parse never becomes ready and is never
\* executed, and the failure does not abort the run: the run returns Ok, the
\* other nodes are executed as without it (a node without dependencies and
\* condition always, any other as soon as it is ready) and the loop ends
\* when no node is ready.
C29_UnparsableWhen ==
    (\E id \in DOMAIN graph.nodes : UnparsableWhen(id)) =>
        /\ \A id \in DOMAIN graph.nodes :
              UnparsableWhen(id) => id \notin Range(ready) \cup LogIds \cup completed
        /\ pc = "done" =>
              /\ result.ok
              /\ get_ready_nodes(graph, completed, state) = <<>>
              /\ \A id \in DOMAIN graph.nodes :
                    (~graph.nodes[id].when.some /\ graph.nodes[id].depends_on = <<>>) =>
                        id \in completed

\* A run has ended in which two nodes were executed while a third, its
\* dependency met, was held back by nothing but its unparsable `when`.
C29_Witness ==
    /\ pc = "done"
    /\ result.ok
    /\ ~parse(Unparsable).ok
    /\ Cardinality(completed) = 2
    /\ \E id \in DOMAIN graph.nodes :
          /\ UnparsableWhen(id)
          /\ graph.nodes[id].depends_on # <<>>
          /\ dependencies_satisfied(graph.nodes[id], completed)
          /\ id \notin completed

\* The model's responses recorded in the history, and the first n responses
\* of the model as history entries.
ModelContents == SelectSeq(history, LAMBDA c : c.role = "model")
Received(n) == [i \in 1..n |-> Content("model", generate_content(self.model, i).parts)]

\* The model answers a tool call on turn 1 and a text on turn 2.
ToolCallThenText ==
    /\ ToolCallsOnly(generate_content(self.model, 1))
    /\ generate_content(self.model, 2).ok
    /\ \E i \in DOMAIN generate_content(self.model, 2).parts :
          NonEmptyText(generate_content(self.model, 2).parts[i])

\* The history begins [system, user, model(ToolCall), user(ToolResponse)].
ToolTurnRecorded ==
    /\ Len(history) >= 4
    /\ history[1].role = "system"
    /\ history[2].role = "user"
    /\ history[3] = Content("model", generate_content(self.model, 1).parts)
    /\ history[4].role = "user"
    /\ history[4].parts # <<>>
    /\ \A i \in DOMAIN history[4].parts : history[4].parts[i].p = "FunctionResponse"

\* C30 as stated: with a ToolCall on turn 1 and a Text on turn 2 the run
\* returns the text and the history at the end is [system, user,
\* model(ToolCall), user(ToolResponse), model(Text)]: every model response,
\* the final text one included, is in the history in the order received.
C30_AsStated ==
    (RunDone /\ ToolCallThenText) =>
        /\ ret.ok
        /\ ToolTurnRecorded
        /\ Len(history) = 5
        /\ history[5] = Content("model", generate_content(self.model, 2).parts)
        /\ ModelContents = Received(ModelCalls(trace))

\* C30: with a ToolCall on turn 1 and a Text on turn 2 the run returns the
\* text and the history at the end is [system, user, model(ToolCall),
\* user(ToolResponse)]: the responses whose tool calls were executed are in
\* the history in the order received, the response that ends the run is not.
C30_HistoryAtEnd ==
    /\ RunDone => ModelContents = Received(turn)
    /\ (RunDone /\ ToolCallThenText) =>
          /\ ret.ok
          /\ \E i \in DOMAIN resp.parts : NonEmptyText(resp.parts[i]) /\ ret.text = resp.parts[i].text
          /\ ToolTurnRecorded
          /\ Len(history) = 4
          /\ ModelCalls(trace) = 2
          /\ turn = 1

\* The tool t1 was called on turn 1, "hello" answered on turn 2.
C30_Witness ==
    /\ RunDone
    /\ generate_content(self.model, 1) = ModelOk(<<FunctionCall("t1")>>)
    /\ generate_content(self.model, 2) = ModelOk(<<Text("hello")>>)
    /\ ret = Ok("hello")
    /\ Len(history) = 4
    /\ history[3] = Content("model", <<FunctionCall("t1")>>)
    /\ history[4].parts[1].name = "t1"

\* The events sent so far are in program order: the position after each
\* event allows only what the program sends next.
EventsInOrder(events) ==
    \A i \in DOMAIN events :
        LET ev == events[i]
            last == i = Len(events)
        IN  CASE ev.e = "Answer" -> last
              [] ev.e = "Thought" -> last \/ events[i + 1].e = "ToolCall"
              [] ev.e = "ToolCall" ->
                    last \/ events[i + 1].e = "Error"
                         \/ events[i + 1] = ToolResult(ev.name, events[i + 1].result)
              [] ev.e = "Error" ->
                    /\ i > 1 /\ events[i - 1].e = "ToolCall"
                    /\ last \/ events[i + 1] = ToolResult(events[i - 1].name, events[i + 1].result)
              [] ev.e = "ToolResult" ->
                    /\ i > 1
                    /\ events[i - 1].e \in {"ToolCall", "Error"}
                    /\ last \/ events[i + 1].e \in {"ToolCall", "Thought", "Answer"}

EventsOfKind(events, kind) == SelectSeq(events, LAMBDA ev : ev.e = kind)

\* The executions of the trace, and the ToolCall events of tools the agent has.
ExecutedNames ==
    LET executed == SelectSeq(trace, LAMBDA entry : entry.op = "execute")
    IN  [i \in DOMAIN executed |-> executed[i].name]
CalledNames ==
    LET calls == SelectSeq(sent, LAMBDA ev : ev.e = "ToolCall" /\ HasTool(self, ev.name))
    IN  [i \in DOMAIN calls |-> calls[i].name]

\* C31: run_stream sends its events in program order: a Thought, if any,
\* comes before the ToolCall events of its turn; a call's ToolCall event is
\* sent before its tool executes, its Error event (if any) next and its
\* ToolResult event before the next call's ToolCall; an Answer is sent at
\* most once and is the last event.
C31_EventsInProgramOrder ==
    (method = "run_stream" /\ rx # "dropped") =>
        /\ EventsInOrder(sent \o outbox)
        /\ Len(EventsOfKind(sent \o outbox, "Answer")) <= 1
        /\ Len(EventsOfKind(sent \o outbox, "Thought")) <= turn + 1
        /\ Len(ExecutedNames) <= Len(CalledNames)
        /\ \A i \in DOMAIN ExecutedNames : ExecutedNames[i] = CalledNames[i]
        /\ apc = "execute" /\ outbox = <<>> => sent[Len(sent)] = ToolCall(Head(pending))

\* A failing call with its Error and ToolResult, a second call with its
\* ToolResult and the answer of the next turn.
C31_Witness ==
    /\ method = "run_stream"
    /\ rx = "draining"
    /\ Len(sent) = 6
    /\ sent[1] = ToolCall("bad")
    /\ sent[2].e = "Error"
    /\ sent[3].e = "ToolResult" /\ sent[3].name = "bad"
    /\ sent[4] = ToolCall("t1")
    /\ sent[5].e = "ToolResult" /\ sent[5].name = "t1"
    /\ sent[6].e = "Answer"

\* What is observed of a tool: the first tool of the name decides; an unknown
\* tool and a failed execute give "Error: <msg>".
ToolsNamed(name) == {i \in DOMAIN self.tools : self.tools[i].name = name}
FirstNamed(name) == self.tools[CHOOSE i \in ToolsNamed(name) : \A j \in ToolsNamed(name) : i <= j]
Observed(name) ==
    IF ToolsNamed(name) = {} THEN "Error: Tool '" \o name \o "' not found"
    ELSE IF ~FirstNamed(name).ok THEN "Error: " \o FirstNamed(name).text
    ELSE to_string_pretty(FirstNamed(name).value)

\* The prompt that holds the input and then every scratchpad entry in order.
PromptWith(in, pad) ==
    IF pad = <<>> THEN in
    ELSE in \o "\n\n--- Previous Steps ---\n" \o JoinStr(pad, "\n")
            \o "\n\nContinue from where you left off."

\* C32: an Action whose tool is unknown or whose execute fails does not abort
\* run: every Action step appends exactly two scratchpad entries, "Action:
\* tool(args)" and then "Observation: ..." ("Error: <msg>" on failure), the
\* loop goes on with the next iteration, and the prompt of every iteration
\* holds all scratchpad entries so far in order.
C32_ActionErrorsObserved ==
    /\ [][apc = "act" =>
            /\ scratchpad[Len(scratchpad)] = "Action: " \o Head(pending) \o "({})"
            /\ scratchpad' = Append(scratchpad, "Observation: " \o Observed(Head(pending)))
            /\ apc' = "turn"
            /\ turn' = turn + 1
            /\ ret' = ret]_vars
    /\ [][(apc = "turn" /\ apc' = "act") =>
            /\ Len(scratchpad') = Len(scratchpad) + 1
            /\ SubSeq(scratchpad', 1, Len(scratchpad)) = scratchpad]_vars
    /\ [][(apc = "turn" /\ trace' # trace) =>
            history'[2] = Content("user", <<Text(PromptWith(input, scratchpad))>>)]_vars

\* Two failed actions, of a tool whose execute fails and of an unknown tool,
\* are on the scratchpad and a third iteration was given them in its prompt.
C32_Witness ==
    /\ Len(scratchpad) >= 4
    /\ Len(history) = 2
    /\ SubSeq(scratchpad, 1, 4) =
          <<"Action: bad({})", "Observation: Error: boom",
            "Action: missing({})", "Observation: Error: Tool 'missing' not found">>
    /\ ModelCalls(trace) = 3
    /\ history[2] = Content("user", <<Text(PromptWith(input, SubSeq(scratchpad, 1, 4)))>>)

(***************************************************************************)
(* WorkflowState::update on a field declared max, min or merge.            *)
(***************************************************************************)
\* The declared field of a run, its reducer and its default.
ReducerFields == {<<"score", "max">>, <<"low", "min">>, <<"meta", "merge">>}
ReducerDefaults(reducer) ==
    IF reducer = "merge"
    THEN {NoDefault, Default(JString("seed")),
          Default(JObject(<<Member("a", JNumber(0)), Member("c", JNumber(0))>>))}
    ELSE {NoDefault, Default(JString("seed")), Default(JNumber(2))}
ReducerValues ==
    {JNumber(1), JNumber(2), JNumber(3), JString("x"), JNull, JArray(<<>>),
     JObject(<<>>), JObject(<<Member("a", JNumber(1))>>),
     JObject(<<Member("a", JNumber(10)), Member("b", JNumber(2))>>)}

ReducerInit ==
    /\ graph = GraphAgentNew(<<>>)
    /\ input = ""
    /\ \E fr \in ReducerFields :
          \E d \in ReducerDefaults(fr[2]) :
              /\ arg = [field |-> fr[1], fields |-> (fr[1] :> StateFieldDef(fr[2], d))]
              /\ state = WorkflowState_new(Schema(fr[1] :> StateFieldDef(fr[2], d)))
    /\ completed = {}
    /\ iteration = 0
    /\ ready = <<>>
    /\ ready_state = EmptyMap
    /\ pc = "off"
    /\ result = NoResult
    /\ log = <<>>
    /\ AgentOff
    /\ ChannelNew("draining")
    /\ services = <<>>
    /\ spawned = <<>>
    /\ registry = <<>>
    /\ task = <<>>
    /\ out = <<>>

ReducerNext == \E value \in ReducerValues : Update(arg.field, value)

ReducerSpec == ReducerInit /\ [][ReducerNext]_vars

\* The numbers a max or min field has seen: a numeric default and the
\* numeric values written.
NumbersSeen ==
    (IF arg.fields[arg.field].default.some /\ arg.fields[arg.field].default.v.t = "Number"
     THEN {arg.fields[arg.field].default.v.n} ELSE {})
        \cup {out[i].value.n : i \in {j \in DOMAIN out : out[j].value.t = "Number"}}

Greatest(S) == CHOOSE x \in S : \A y \in S : y <= x
Least(S) == CHOOSE x \in S : \A y \in S : x <= y

\* The field is as WorkflowState::new left it.
AsAtStart(key) ==
    IF arg.fields[key].default.some
    THEN HasKey(state, key) /\ get(state, key) = arg.fields[key].default.v
    ELSE ~HasKey(state, key)

\* C33: a field declared max (min) holds the maximum (minimum) of the numeric
\* values written: the first numeric write is stored when the field was
\* absent, a write that does not exceed (undercut) the current value changes
\* nothing, and a non-numeric write changes nothing.
C33_MaxMin ==
    arg.fields[arg.field].reducer \in {"max", "min"} =>
        IF NumbersSeen = {} THEN AsAtStart(arg.field)
        ELSE /\ HasKey(state, arg.field)
             /\ get(state, arg.field) =
                   JNumber(IF arg.fields[arg.field].reducer = "max"
                           THEN Greatest(NumbersSeen) ELSE Least(NumbersSeen))

\* An absent max field after the writes 2, "x", 1 holds 2.
C33_Witness ==
    /\ arg.field = "score"
    /\ ~arg.fields["score"].default.some
    /\ Len(out) = 3
    /\ out[1].value = JNumber(2)
    /\ out[2].value = JString("x")
    /\ out[3].value = JNumber(1)
    /\ get(state, "score") = JNumber(2)

\* An object as a map from its keys to their values, and the shallow merge
\* of two such maps, the keys of the second winning.
AsMap(obj) ==
    [k \in {obj.m[i].k : i \in DOMAIN obj.m} |->
        obj.m[CHOOSE i \in DOMAIN obj.m : obj.m[i].k = k].v]
ShallowMerge(cur, new) ==
    [k \in (DOMAIN cur) \cup (DOMAIN new) |-> IF k \in DOMAIN new THEN new[k] ELSE cur[k]]

\* The field after the writes, as the statement has it: absent, an object
\* (as a map) or a value that is no object.
Absent == [kind |-> "absent", map |-> <<>>, v |-> JNull]
AnObject(map) == [kind |-> "object", map |-> map, v |-> JNull]
NoObject(value) == [kind |-> "other", map |-> <<>>, v |-> value]
FieldOf(present, value) ==
    IF ~present THEN Absent
    ELSE IF value.t = "Object" THEN AnObject(AsMap(value)) ELSE NoObject(value)

RECURSIVE Merged(_, _)
Merged(cur, writes) ==
    IF writes = <<>> THEN cur
    ELSE LET value == Head(writes).value
         IN  Merged(IF value.t = "Object" /\ cur.kind # "other"
                    THEN AnObject(ShallowMerge(cur.map, AsMap(value)))
                    ELSE cur,
                    Tail(writes))

\* C34: a field declared merge, updated with an object, becomes the shallow
\* merge of the current object (the empty object when the field was absent)
\* with it, the keys of the update winning and all other keys kept; an update
\* whose value, or whose current value, is no object leaves the state as it
\* was before the update.
C34_MergeShallow ==
    arg.fields[arg.field].reducer = "merge" =>
        FieldOf(HasKey(state, arg.field),
                IF HasKey(state, arg.field) THEN get(state, arg.field) ELSE JNull)
            = Merged(FieldOf(arg.fields[arg.field].default.some,
                             arg.fields[arg.field].default.v), out)

\* The string "x" was written to an absent merge field, and the field is now
\* present and holds the empty object.
C34_Witness ==
    /\ arg.field = "meta"
    /\ ~arg.fields["meta"].default.some
    /\ out = <<[key |-> "meta", value |-> JString("x")]>>
    /\ HasKey(state, "meta")
    /\ get(state, "meta") = JObject(<<>>)

(***************************************************************************)
(* Conditions with two connectives.  The three terms are comparisons of    *)
(* the boolean fields a, b and c with true, in every order and with every  *)
(* pair of connectives, evaluated on every truth assignment of the fields. *)
(***************************************************************************)
TruthStates ==
    {update(update(update(empty, "a", JBool(x)), "b", JBool(y)), "c", JBool(z)) :
        <<x, y, z>> \in BOOLEAN \X BOOLEAN \X BOOLEAN}

Term(field) == <<Kw(field), Kw("=="), Kw("true")>>
TermExpr(field) == Compare(<<field>>, "==", LitBoolean(TRUE))
NoOperator(field) == <<Kw(field), Kw("is"), Kw("true")>>

Compound(f, k1, g, k2, h) == Term(f) \o <<Kw(k1)>> \o Term(g) \o <<Kw(k2)>> \o Term(h)

CompoundConditions ==
    {Compound(f, k1, g, k2, h) :
        <<f, k1, g, k2, h>> \in
            {t \in {"a", "b", "c"} \X {"and", "or"} \X {"a", "b", "c"} \X {"and", "or"}
                        \X {"a", "b", "c"} : t[1] # t[3] /\ t[3] # t[5] /\ t[1] # t[5]}}
        \cup {Term("a") \o <<Kw("and")>> \o NoOperator("b") \o <<Kw("or")>> \o Term("c")}

CompoundInit ==
    /\ graph = GraphAgentNew(<<>>)
    /\ input = ""
    /\ state \in TruthStates
    /\ completed = {}
    /\ iteration = 0
    /\ ready = <<>>
    /\ ready_state = EmptyMap
    /\ pc = "off"
    /\ result = NoResult
    /\ log = <<>>
    /\ AgentOff
    /\ ChannelNew("draining")
    /\ services = <<>>
    /\ spawned = <<>>
    /\ registry = <<>>
    /\ task = <<>>
    /\ arg = <<>>
    /\ out = <<>>

CompoundNext ==
    \/ \E toks \in CompoundConditions : Evaluate(toks)
    \/ \E toks \in CompoundConditions : ParseFails(toks)

CompoundSpec == CompoundInit /\ [][CompoundNext]_vars

Connect(k, l, r) == IF k = "and" THEN And(l, r) ELSE Or(l, r)
Holds(field) == get(state, field) = JBool(TRUE)
Truth(k, x, y) == IF k = "and" THEN x /\ y ELSE x \/ y

\* The condition f k1 g k2 h was parsed.
Parsed(i, f, k1, g, k2, h) ==
    /\ out[i].toks = Compound(f, k1, g, k2, h)
    /\ out[i].parsed.ok

\* C35: f k1 g k2 h parses as (f k1 g) k2 h, the left-associative grouping,
\* and its value is that of the grouping on every truth assignment: `A and
\* B or C` is Or(And(A,B),C) and `A or B and C` is And(Or(A,B),C).
C35_LeftAssociative ==
    \A i \in DOMAIN out :
        \A f, g, h \in {"a", "b", "c"}, k1, k2 \in {"and", "or"} :
            Parsed(i, f, k1, g, k2, h) =>
                /\ out[i].parsed.expr
                      = Connect(k2, Connect(k1, TermExpr(f), TermExpr(g)), TermExpr(h))
                /\ out[i].value <=> Truth(k2, Truth(k1, Holds(f), Holds(g)), Holds(h))

\* `a and b or c` evaluated where a is false and c is true: false, where
\* Or(And(a,b),c) is true; the expression is And(a, Or(b,c)).
C35_Witness ==
    /\ Len(out) = 1
    /\ Parsed(1, "a", "and", "b", "or", "c")
    /\ ~Holds("a") /\ Holds("c")
    /\ out[1].parsed.expr = And(TermExpr("a"), Or(TermExpr("b"), TermExpr("c")))
    /\ ~out[1].value

(***************************************************************************)
(* Progress of GraphAgent::run.                                            *)
(***************************************************************************)
InvokedIds == [i \in DOMAIN log |-> log[i].id]

\* The iterations that have executed all of their ready list.
IterationsExecuted == IF pc \in {"loop", "idle"} THEN iteration ELSE iteration - 1

\* The invocations made in iteration n.
InvokedIn(n) == {i \in DOMAIN log : log[i].iteration = n}

\* C36: in one run every node is invoked at most once, completed only
\* grows, every iteration that executed its ready list has invoked a node
\* that was not completed before and is completed since, and the loop head
\* is passed at most |nodes| + 1 times.
C36_Progress ==
    /\ [](/\ Injective(InvokedIds)
          /\ completed \subseteq DOMAIN graph.nodes
          /\ \A i \in DOMAIN log : log[i].id \in completed \ log[i].at_completed
          /\ \A n \in 1..IterationsExecuted : InvokedIn(n) # {}
          /\ IterationsExecuted <= Cardinality(completed)
          /\ iteration <= Cardinality(DOMAIN graph.nodes) + 1)
    /\ [][completed \subseteq completed']_vars

\* A chain of three nodes has run: three invocations in three iterations
\* and a fourth pass that finds nothing ready.
C36_Witness ==
    /\ pc = "done"
    /\ Cardinality(DOMAIN graph.nodes) = 3
    /\ iteration = 4
    /\ Len(log) = 3
    /\ \A n \in 1..3 : Cardinality(InvokedIn(n)) = 1

\* The workflow state as it was when the invocation was made, and as it was
\* when the invocation's ready list was computed.
StateAt(entry) == [fields |-> entry.at_fields, reducers |-> state.reducers]
StateSelected(entry) == [fields |-> entry.sel_fields, reducers |-> state.reducers]

\* C37: the when condition of every invoked node holds on the workflow
\* state at the moment of the invocation, whatever the nodes that ran
\* before it in the same iteration have written.
C37_ConditionHeldAtInvocation ==
    \A i \in DOMAIN log : condition_met(NodeOf(log[i]), StateAt(log[i]))

\* b and c are gated on intent == 'search' and selected together; b writes
\* intent = "code", and c is invoked although its condition is now false.
C37_Witness ==
    \E i \in DOMAIN log :
        /\ i > 1
        /\ log[i].id = "c"
        /\ log[i - 1].id = "b"
        /\ log[i - 1].iteration = log[i].iteration
        /\ NodeOf(log[i]).when = When(IntentEq("search"))
        /\ condition_met(NodeOf(log[i]), StateSelected(log[i]))
        /\ get(StateSelected(log[i]), "intent") = JString("search")
        /\ get(StateAt(log[i]), "intent") = JString("code")
        /\ ~condition_met(NodeOf(log[i]), StateAt(log[i]))

\* The condition strings `output.<id>.intent == 'search'` and
\* `<id>.error != null`, and their value on a state as a when clause.
OutputIntentIs(id, literal) == <<Word(<<"output", id, "intent">>), Kw("=="), Quoted(literal)>>
ErrorNotNull(id) == <<Word(<<id, "error">>), Kw("!="), Kw("null")>>
WhenHolds(toks, st) ==
    condition_met(CompiledNode("w", MockAgent(""), <<>>, When(toks), NoOutputs, "All"), st)

SearchIntent == JObject(<<Member("intent", JString("search"))>>)

\* C38: once node X has succeeded with the output {"intent": "search"} the
\* condition `output.X.intent == 'search'` is true on the workflow state,
\* and once node X has failed the condition `X.error != null` is true.
C38_DottedKeysObservable ==
    \A i \in DOMAIN log :
        /\ (log[i].ok /\ log[i].text = IntentJson("search")) =>
                WhenHolds(OutputIntentIs(log[i].id, "search"), state)
        /\ ~log[i].ok => WhenHolds(ErrorNotNull(log[i].id), state)

\* a has returned {"intent": "search"}, which is stored at the key output.a;
\* the path output.a.intent is missing and the condition is false.
C38_Witness ==
    /\ \E i \in DOMAIN log : log[i].id = "a" /\ log[i].ok /\ log[i].text = IntentJson("search")
    /\ HasKey(state, "output.a") /\ get(state, "output.a") = SearchIntent
    /\ parse(OutputIntentIs("a", "search")).ok
    /\ ~get_path(state, <<"output", "a", "intent">>).some
    /\ ~WhenHolds(OutputIntentIs("a", "search"), state)

\* A stored output as the text handed to an agent.
OutputText(value) == IF value.t = "String" THEN value.s ELSE to_string(value)

\* The dependencies of the invoked node that were completed, with an output
\* in the state, when the invocation was made.
CompletedWithOutput(entry) ==
    {dep \in Range(NodeOf(entry).depends_on) :
        dep \in entry.at_completed /\ OutputKey(dep) \in DOMAIN entry.at_fields}

AnyJoin(entry) == NodeOf(entry).wait_mode = "Any" /\ Len(NodeOf(entry).depends_on) >= 2

\* C39: a node with wait mode Any and two or more dependencies is run on the
\* output of one of its completed dependencies, and on the original input
\* only if none of its completed dependencies has an output.
C39_AnyInputFromCompleted ==
    \A i \in DOMAIN log :
        AnyJoin(log[i]) =>
            IF CompletedWithOutput(log[i]) = {} THEN log[i].input = input
            ELSE \E dep \in CompletedWithOutput(log[i]) :
                    log[i].input = OutputText(log[i].at_fields[OutputKey(dep)])

\* c waits for any of [a, b]: a has completed with the output "out-a", b
\* has failed and has no output, and c is run on the original input.
C39_Witness ==
    \E i \in DOMAIN log :
        /\ AnyJoin(log[i])
        /\ log[i].id = "c"
        /\ NodeOf(log[i]).depends_on = <<"a", "b">>
        /\ CompletedWithOutput(log[i]) = {"a"}
        /\ log[i].at_fields[OutputKey("a")] = JString("out-a")
        /\ log[i].input = input
        /\ log[i].input # "out-a"

\* The chain the graph of a sequential composite computes: every output is
\* handed on as build_node_input reads it back from the state, the last one
\* is returned as format_response renders it.
RECURSIVE GraphSequential(_, _)
GraphSequential(agents, in) ==
    LET r == AgentRun(Head(agents), in)
    IN  IF Len(agents) = 1 THEN Ok(Returned(r.text))
        ELSE GraphSequential(Tail(agents), HandedOn(r.text))

\* Texts that the graph stores, hands on and returns as SequentialAgent
\* passes them: no JSON text, or a JSON number.
PassedUnchanged(text) == ~from_str(text).ok \/ from_str(text).v.t = "Number"

\* What the graph does return: the result of the chain in which every
\* output that is JSON text is handed on parsed and returned as its text
\* rendering, which is SequentialAgent's result when every output is no JSON
\* text or a JSON number.
GraphReturnsChain ==
    SequentialCase =>
        /\ result = GraphSequential(StepAgents, input)
        /\ (\A i \in DOMAIN StepAgents : PassedUnchanged(log[i].text)) =>
              result = SequentialRun(StepAgents, input)

\* C40: the normalized graph of a sequential composite whose agents all
\* succeed returns what SequentialAgent::run returns for the same agents and
\* the same input, also when an agent's output is JSON text.
C40_GraphEqualsSequentialAgent ==
    SequentialCase => result = SequentialRun(StepAgents, input)

\* The steps append -A and return {"result": "done"}: the graph returns
\* done, SequentialAgent the JSON text.
C40_Witness ==
    /\ SequentialCase
    /\ StepAgents = <<TransformAgent("-A"), MockAgent("{\"result\": \"done\"}")>>
    /\ result = Ok("done")
    /\ SequentialRun(StepAgents, input) = Ok("{\"result\": \"done\"}")
====
